---------------------------- MODULE Spec2Model ----------------------------
(***************************************************************************)
(* Tool-invocation protocol layer of the agent runtime:                    *)
(*   - NativeToolCallParser.parseToolCall (native call -> ToolUse | null)  *)
(*   - BaseTool.handle (partial echo | parameter resolution -> execute)    *)
(*   - the concrete tools attempt_completion, new_task and list_files.     *)
(*                                                                         *)
(* Representation of JavaScript data.                                      *)
(*   A JS string is a sequence of one-character strings, so that the       *)
(*   character-level functions of the code (parseInt, toLowerCase, the     *)
(*   regular expressions) are computed and not assumed.  Property keys     *)
(*   and tool names are atoms (TLA+ strings): the code only tests them     *)
(*   for equality and set membership.  Every other JS value is a tagged    *)
(*   record; a number n/10 is [t |-> "num", n |-> n] (one decimal digit),  *)
(*   an object is the sequence of its entries in insertion order.          *)
(*   The text of `arguments` is a sequence of lexical tokens;              *)
(*   JSONparse is a parser of the JSON grammar over these tokens.          *)
(***************************************************************************)
EXTENDS Integers, Sequences, FiniteSets, TLC

(***************************************************************************)
(* Bounds of the model.                                                    *)
(***************************************************************************)
\* Invocations one run of the driver processes.
MaxCalls == 2
\* Partial snapshots streamed before the complete snapshot of one invocation.
MaxPartials == 2
MaxTagChars == 3
\* Characters of a new_task message.
MaxMsgLen == 4

(***************************************************************************)
(* JavaScript values.                                                      *)
(***************************************************************************)
Undef == [t |-> "undefined"]
JNull == [t |-> "null"]
NaN == [t |-> "nan"]
JBool(b) == [t |-> "bool", b |-> b]
\* The number n/10.
JTenths(n) == [t |-> "num", n |-> n]
\* The integer i.
JInt(i) == [t |-> "num", n |-> 10 * i]
JStr(s) == [t |-> "str", s |-> s]
JArr(a) == [t |-> "arr", a |-> a]
JObj(e) == [t |-> "obj", e |-> e]
Ent(k, v) == [k |-> k, v |-> v]

IsInteger(v) == v.t = "num" /\ v.n % 10 = 0

\* JS truthiness (ToBoolean).
Truthy(v) ==
    CASE v.t = "undefined" -> FALSE
      [] v.t = "null" -> FALSE
      [] v.t = "nan" -> FALSE
      [] v.t = "bool" -> v.b
      [] v.t = "num" -> v.n # 0
      [] v.t = "str" -> v.s # <<>>
      [] OTHER -> TRUE

\* Keys of an object value.
KeysOf(o) == {o.e[i].k : i \in DOMAIN o.e}

\* Property read `v.k` on a value decoded from JSON (none of the keys the
\* code reads is a property of a string, number, boolean or array).
Prop(v, k) ==
    IF v.t = "obj" /\ k \in KeysOf(v)
    THEN v.e[CHOOSE i \in DOMAIN v.e : v.e[i].k = k].v
    ELSE Undef

\* Object with key k set to v: an existing key keeps its position.
Put(e, k, v) ==
    IF \E i \in DOMAIN e : e[i].k = k
    THEN [i \in DOMAIN e |-> IF e[i].k = k THEN Ent(k, v) ELSE e[i]]
    ELSE Append(e, Ent(k, v))

(***************************************************************************)
(* Characters and number formatting.                                       *)
(***************************************************************************)
Digits == <<"0", "1", "2", "3", "4", "5", "6", "7", "8", "9">>
IsDigit(c) == \E i \in DOMAIN Digits : Digits[i] = c
DigitVal(c) == (CHOOSE i \in DOMAIN Digits : Digits[i] = c) - 1
DigitChar(d) == Digits[d + 1]
IsSpace(c) == c \in {" ", "\t", "\n"}

RECURSIVE NatChars(_)
NatChars(n) ==
    IF n < 10 THEN <<DigitChar(n)>>
    ELSE NatChars(n \div 10) \o <<DigitChar(n % 10)>>

\* Number-to-string of the number n/10.
NumChars(n) ==
    LET a == IF n < 0 THEN -n ELSE n
    IN (IF n < 0 THEN <<"-">> ELSE <<>>)
       \o NatChars(a \div 10)
       \o (IF a % 10 = 0 THEN <<>> ELSE <<".", DigitChar(a % 10)>>)

\* The characters of a property key, as JSON.stringify writes it.
KeyChars(k) ==
    CASE k = "path" -> <<"p", "a", "t", "h">>
      [] k = "line_ranges" -> <<"l", "i", "n", "e", "_", "r", "a", "n", "g", "e", "s">>
      [] k = "lineRanges" -> <<"l", "i", "n", "e", "R", "a", "n", "g", "e", "s">>
      [] k = "text" -> <<"t", "e", "x", "t">>
      [] k = "mode" -> <<"m", "o", "d", "e">>
      [] k = "message" -> <<"m", "e", "s", "s", "a", "g", "e">>
      [] k = "todos" -> <<"t", "o", "d", "o", "s">>
      [] k = "result" -> <<"r", "e", "s", "u", "l", "t">>
      [] k = "command" -> <<"c", "o", "m", "m", "a", "n", "d">>
      [] k = "recursive" -> <<"r", "e", "c", "u", "r", "s", "i", "v", "e">>
      [] k = "args" -> <<"a", "r", "g", "s">>
      [] k = "bogus" -> <<"b", "o", "g", "u", "s">>

\* JSON string escaping of the quote and the backslash.
RECURSIVE EscapeChars(_)
EscapeChars(s) ==
    IF s = <<>> THEN <<>>
    ELSE (IF Head(s) \in {"\"", "\\"} THEN <<"\\", Head(s)>> ELSE <<Head(s)>>)
         \o EscapeChars(Tail(s))

RECURSIVE JSONstringify(_)
RECURSIVE StringifyItems(_)
RECURSIVE StringifyMembers(_, _)
\* JSON.stringify(v) for a value that is not undefined.
JSONstringify(v) ==
    CASE v.t = "null" -> <<"n", "u", "l", "l">>
      [] v.t = "nan" -> <<"n", "u", "l", "l">>
      [] v.t = "bool" -> IF v.b THEN <<"t", "r", "u", "e">>
                         ELSE <<"f", "a", "l", "s", "e">>
      [] v.t = "num" -> NumChars(v.n)
      [] v.t = "str" -> <<"\"">> \o EscapeChars(v.s) \o <<"\"">>
      [] v.t = "arr" -> <<"[">> \o StringifyItems(v.a) \o <<"]">>
      [] v.t = "obj" -> <<"{">> \o StringifyMembers(v.e, TRUE) \o <<"}">>

StringifyItems(a) ==
    IF a = <<>> THEN <<>>
    ELSE (IF Head(a).t = "undefined" THEN <<"n", "u", "l", "l">>
          ELSE JSONstringify(Head(a)))
         \o (IF Tail(a) = <<>> THEN <<>> ELSE <<",">> \o StringifyItems(Tail(a)))

\* Members whose value is undefined are left out.
StringifyMembers(e, first) ==
    IF e = <<>> THEN <<>>
    ELSE IF Head(e).v.t = "undefined" THEN StringifyMembers(Tail(e), first)
    ELSE (IF first THEN <<>> ELSE <<",">>)
         \o <<"\"">> \o KeyChars(Head(e).k) \o <<"\"", ":">>
         \o JSONstringify(Head(e).v)
         \o StringifyMembers(Tail(e), FALSE)

RECURSIVE ToStringJS(_)
RECURSIVE JoinItems(_)
\* String(v).
ToStringJS(v) ==
    CASE v.t = "undefined" -> <<"u", "n", "d", "e", "f", "i", "n", "e", "d">>
      [] v.t = "null" -> <<"n", "u", "l", "l">>
      [] v.t = "nan" -> <<"N", "a", "N">>
      [] v.t = "bool" -> IF v.b THEN <<"t", "r", "u", "e">>
                         ELSE <<"f", "a", "l", "s", "e">>
      [] v.t = "num" -> NumChars(v.n)
      [] v.t = "str" -> v.s
      [] v.t = "arr" -> JoinItems(v.a)
      [] v.t = "obj" -> <<"[", "o", "b", "j", "e", "c", "t", " ",
                          "O", "b", "j", "e", "c", "t", "]">>

\* Array.prototype.join(","): null and undefined items give the empty string.
JoinItems(a) ==
    IF a = <<>> THEN <<>>
    ELSE (IF Head(a).t \in {"undefined", "null"} THEN <<>> ELSE ToStringJS(Head(a)))
         \o (IF Tail(a) = <<>> THEN <<>> ELSE <<",">> \o JoinItems(Tail(a)))

RECURSIVE SkipSpaces(_)
SkipSpaces(s) ==
    IF s # <<>> /\ IsSpace(Head(s)) THEN SkipSpaces(Tail(s)) ELSE s

RECURSIVE DigitPrefix(_)
DigitPrefix(s) ==
    IF s # <<>> /\ IsDigit(Head(s)) THEN <<Head(s)>> \o DigitPrefix(Tail(s)) ELSE <<>>

RECURSIVE DigitsValue(_, _)
DigitsValue(s, acc) ==
    IF s = <<>> THEN acc ELSE DigitsValue(Tail(s), 10 * acc + DigitVal(Head(s)))

\* parseInt(s, 10): leading white space, an optional sign, the longest run
\* of decimal digits; NaN when there is no digit.
parseInt(s) ==
    LET t == SkipSpaces(s)
        neg == t # <<>> /\ Head(t) = "-"
        u == IF t # <<>> /\ Head(t) \in {"-", "+"} THEN Tail(t) ELSE t
        d == DigitPrefix(u)
    IN IF d = <<>> THEN NaN
       ELSE JInt(IF neg THEN -DigitsValue(d, 0) ELSE DigitsValue(d, 0))

(***************************************************************************)
(* JSON.parse over the token text of `arguments`.                          *)
(*   Tokens: the six punctuation marks, a string literal in member-name    *)
(*   position ("key"), a string literal ("str"), a number literal, the     *)
(*   three word literals, and "junk" for text that is no JSON token.       *)
(***************************************************************************)
LB == [tk |-> "{"]
RB == [tk |-> "}"]
LK == [tk |-> "["]
RK == [tk |-> "]"]
CM == [tk |-> ","]
CL == [tk |-> ":"]
TTrue == [tk |-> "true"]
TFalse == [tk |-> "false"]
TNull == [tk |-> "null"]
Junk == [tk |-> "junk"]
K(k) == [tk |-> "key", k |-> k]
S(s) == [tk |-> "str", s |-> s]
N(n) == [tk |-> "num", n |-> n]

PFail == [ok |-> FALSE]
POk(v, rest) == [ok |-> TRUE, v |-> v, rest |-> rest]

RECURSIVE ParseValue(_)
RECURSIVE ParseElements(_, _)
RECURSIVE ParseMembers(_, _)
ParseValue(ts) ==
    IF ts = <<>> THEN PFail
    ELSE LET h == Head(ts)
             r == Tail(ts)
         IN CASE h.tk = "str" -> POk(JStr(h.s), r)
              [] h.tk = "num" -> POk(JTenths(h.n), r)
              [] h.tk = "true" -> POk(JBool(TRUE), r)
              [] h.tk = "false" -> POk(JBool(FALSE), r)
              [] h.tk = "null" -> POk(JNull, r)
              [] h.tk = "[" ->
                    IF r # <<>> /\ Head(r).tk = "]" THEN POk(JArr(<<>>), Tail(r))
                    ELSE ParseElements(r, <<>>)
              [] h.tk = "{" ->
                    IF r # <<>> /\ Head(r).tk = "}" THEN POk(JObj(<<>>), Tail(r))
                    ELSE ParseMembers(r, <<>>)
              [] OTHER -> PFail

ParseElements(ts, acc) ==
    LET p == ParseValue(ts)
    IN IF ~p.ok \/ p.rest = <<>> THEN PFail
       ELSE IF Head(p.rest).tk = "]" THEN POk(JArr(Append(acc, p.v)), Tail(p.rest))
       ELSE IF Head(p.rest).tk = "," THEN ParseElements(Tail(p.rest), Append(acc, p.v))
       ELSE PFail

ParseMembers(ts, acc) ==
    IF Len(ts) < 2 \/ ts[1].tk # "key" \/ ts[2].tk # ":" THEN PFail
    ELSE LET p == ParseValue(Tail(Tail(ts)))
         IN IF ~p.ok \/ p.rest = <<>> THEN PFail
            ELSE IF Head(p.rest).tk = "}"
                 THEN POk(JObj(Put(acc, ts[1].k, p.v)), Tail(p.rest))
            ELSE IF Head(p.rest).tk = ","
                 THEN ParseMembers(Tail(p.rest), Put(acc, ts[1].k, p.v))
            ELSE PFail

\* JSON.parse(text): the value, or a SyntaxError.
JSONparse(text) ==
    LET p == ParseValue(text)
    IN IF p.ok /\ p.rest = <<>> THEN [ok |-> TRUE, v |-> p.v] ELSE [ok |-> FALSE]

(***************************************************************************)
(* The closed enumerations (the wire contract).                            *)
(***************************************************************************)
\* Tool Name set: the names the parser and the tools of this layer use.
toolNames ==
    {"read_file", "attempt_completion", "execute_command", "insert_content",
     "apply_diff", "ask_followup_question", "browser_action", "codebase_search",
     "fetch_instructions", "list_files", "new_task"}

\* Parameter Name set, shared by all tools.
toolParamNames ==
    {"path", "files", "result", "command", "cwd", "line", "content", "diff",
     "question", "follow_up", "action", "url", "coordinate", "size", "text",
     "query", "task", "recursive", "mode", "message", "todos", "args"}

(***************************************************************************)
(* NativeToolCallParser.parseToolCall                                      *)
(***************************************************************************)
Null == [type |-> "null"]

ToolUse(name, params, nativeArgs) ==
    [type |-> "tool_use", name |-> name, params |-> params,
     partial |-> FALSE, nativeArgs |-> nativeArgs]

\* The empty params object.
NoParams == [k \in {} |-> <<>>]

\* params[k] = s
SetParam(params, k, s) ==
    [x \in DOMAIN params \cup {k} |-> IF x = k THEN s ELSE params[x]]

\* toolNames.includes(name)
\* A validation that lets every name through.
ValidToolName_Any(name) == TRUE

ValidToolName(name) == name \in toolNames

\* A filter that lets every key through.
ValidParamName_Any(key) == TRUE

\* toolParamNames.includes(key)
ValidParamName(key) == key \in toolParamNames

\* Object.entries(args) of a value that is neither null nor undefined: the
\* members of an object, the indexed items of an array, the indexed
\* characters of a string, nothing for a number or a boolean.
ObjectEntries(args) ==
    CASE args.t = "obj" -> args.e
      [] args.t = "arr" -> [i \in DOMAIN args.a |-> Ent(DigitChar(i - 1), args.a[i])]
      [] args.t = "str" -> [i \in DOMAIN args.s |-> Ent(DigitChar(i - 1), JStr(<<args.s[i]>>))]
      [] OTHER -> <<>>

\* A synthesis that serializes every value, strings included.
StringValue_Quoted(value) == JSONstringify(value)

\* typeof value === "string" ? value : JSON.stringify(value)
StringValue(value) ==
    IF value.t = "str" THEN value.s ELSE JSONstringify(value)

\* A synthesis that skips no key.
SkipsSynthesis_None(name, key) == FALSE

\* The bulk argument that is carried by nativeArgs only.
SkipsSynthesis(name, key) == name = "read_file" /\ key = "files"

\* The loop over Object.entries(args): the legacy string params and the keys
\* warned about.
RECURSIVE SynthesizeParams(_, _, _)
SynthesizeParams(name, entries, acc) ==
    IF entries = <<>> THEN acc
    ELSE LET key == Head(entries).k
             value == Head(entries).v
         IN IF SkipsSynthesis(name, key)
            THEN SynthesizeParams(name, Tail(entries), acc)
            ELSE IF ~ValidParamName(key)
            THEN SynthesizeParams(name, Tail(entries),
                                  [acc EXCEPT !.warned = @ \cup {key}])
            ELSE SynthesizeParams(name, Tail(entries),
                                  [acc EXCEPT !.params =
                                      SetParam(@, key, StringValue(value))])

\* case "read_file"
\* A conversion that looks at path before files.
ReadFileNativeArgs_PathFirst(args) ==
    IF Truthy(Prop(args, "path"))
    THEN JArr(<<JObj(<<Ent("path", Prop(args, "path")),
                       Ent("lineRanges", JArr(<<>>))>>)>>)
    ELSE IF Truthy(Prop(args, "files")) /\ Prop(args, "files").t = "arr"
    THEN Prop(args, "files")
    ELSE Undef

ReadFileNativeArgs(args) ==
    IF Truthy(Prop(args, "files")) /\ Prop(args, "files").t = "arr"
    THEN Prop(args, "files")
    ELSE IF Truthy(Prop(args, "path"))
    THEN JArr(<<JObj(<<Ent("path", Prop(args, "path")),
                       Ent("lineRanges", JArr(<<>>))>>)>>)
    ELSE Undef

\* typeof args.line === "number" ? args.line : parseInt(String(args.line), 10)
LineNumber(line) ==
    IF line.t = "num" THEN line ELSE parseInt(ToStringJS(line))

\* case "insert_content"
InsertContentNativeArgs(args) ==
    IF Prop(args, "path") # Undef /\ Prop(args, "line") # Undef
       /\ Prop(args, "content") # Undef
    THEN JObj(<<Ent("path", Prop(args, "path")),
                Ent("line", LineNumber(Prop(args, "line"))),
                Ent("content", Prop(args, "content"))>>)
    ELSE Undef

\* The object {k1: args.k1, ...} for the keys ks, in order.
Pick(args, ks) == JObj([i \in DOMAIN ks |-> Ent(ks[i], Prop(args, ks[i]))])

\* A switch whose default case passes the decoded object on as nativeArgs.
BuildNativeArgs_AnyTool(name, args) ==
    IF args.t = "obj" THEN args ELSE Undef

\* The switch on the tool name that builds the typed nativeArgs.
BuildNativeArgs(name, args) ==
    CASE name = "read_file" -> ReadFileNativeArgs(args)
      [] name = "attempt_completion" ->
            IF Truthy(Prop(args, "result")) THEN Pick(args, <<"result">>) ELSE Undef
      [] name = "execute_command" ->
            IF Truthy(Prop(args, "command")) THEN Pick(args, <<"command", "cwd">>)
            ELSE Undef
      [] name = "insert_content" -> InsertContentNativeArgs(args)
      [] name = "apply_diff" ->
            IF Prop(args, "path") # Undef /\ Prop(args, "diff") # Undef
            THEN Pick(args, <<"path", "diff">>) ELSE Undef
      [] name = "ask_followup_question" ->
            IF Prop(args, "question") # Undef /\ Prop(args, "follow_up") # Undef
            THEN Pick(args, <<"question", "follow_up">>) ELSE Undef
      [] name = "browser_action" ->
            IF Prop(args, "action") # Undef
            THEN Pick(args, <<"action", "url", "coordinate", "size", "text">>)
            ELSE Undef
      [] name = "codebase_search" ->
            IF Prop(args, "query") # Undef THEN Pick(args, <<"query", "path">>)
            ELSE Undef
      [] name = "fetch_instructions" ->
            IF Prop(args, "task") # Undef THEN Pick(args, <<"task">>) ELSE Undef
      [] OTHER -> Undef

\* The body of the try block: it returns the ToolUse, or throws (JSON.parse
\* a SyntaxError, Object.entries(null) a TypeError).
ParseBody(toolCall) ==
    LET j == JSONparse(toolCall.arguments)
    IN IF ~j.ok THEN [kind |-> "throw", error |-> "SyntaxError"]
       ELSE IF j.v.t = "null" THEN [kind |-> "throw", error |-> "TypeError"]
       ELSE LET syn == SynthesizeParams(toolCall.name, ObjectEntries(j.v),
                                        [params |-> NoParams, warned |-> {}])
            IN [kind |-> "return",
                value |-> ToolUse(toolCall.name, syn.params,
                                  BuildNativeArgs(toolCall.name, j.v)),
                warned |-> syn.warned]

\* A parser without the catch block: the error reaches the caller.
CatchParseError_Rethrow(body) ==
    IF body.kind = "throw"
    THEN [kind |-> "throw", value |-> Null, warned |-> {}, logged |-> "none"]
    ELSE [kind |-> "return", value |-> body.value, warned |-> body.warned,
          logged |-> "none"]

\* catch (error) { console.error(...); return null }
CatchParseError(body) ==
    IF body.kind = "throw"
    THEN [kind |-> "return", value |-> Null, warned |-> {},
          logged |-> "Failed to parse tool call arguments"]
    ELSE [kind |-> "return", value |-> body.value, warned |-> body.warned,
          logged |-> "none"]

\* parseToolCall(toolCall): how the call ends (kind: return | throw), the
\* value returned, whether JSON.parse was invoked on the arguments, the keys
\* an unknown-parameter warning was logged for, and the error logged.
parseToolCall(toolCall) ==
    IF ~ValidToolName(toolCall.name)
    THEN [kind |-> "return", value |-> Null, warned |-> {},
          logged |-> "Invalid tool name", decoded |-> FALSE]
    ELSE LET r == CatchParseError(ParseBody(toolCall))
         IN IF r.kind = "throw"
            THEN [kind |-> "throw", value |-> Null, warned |-> {},
                  logged |-> "none", decoded |-> TRUE]
            ELSE [kind |-> "return", value |-> r.value, warned |-> r.warned,
                  logged |-> r.logged, decoded |-> TRUE]

(***************************************************************************)
(* The earlier NativeToolCallParser.parseToolCall: legacy params only, no  *)
(* nativeArgs and no exclusion of the read_file bulk argument.             *)
(***************************************************************************)
RECURSIVE SynthesizeAllParams(_, _)
SynthesizeAllParams(entries, acc) ==
    IF entries = <<>> THEN acc
    ELSE LET key == Head(entries).k
             value == Head(entries).v
         IN IF ~ValidParamName(key)
            THEN SynthesizeAllParams(Tail(entries), [acc EXCEPT !.warned = @ \cup {key}])
            ELSE SynthesizeAllParams(Tail(entries),
                                     [acc EXCEPT !.params =
                                         SetParam(@, key, StringValue(value))])

parseToolCallUntyped(toolCall) ==
    IF ~ValidToolName(toolCall.name)
    THEN [kind |-> "return", value |-> Null, warned |-> {},
          logged |-> "Invalid tool name", decoded |-> FALSE]
    ELSE LET j == JSONparse(toolCall.arguments)
         IN IF ~j.ok \/ j.v.t = "null"
            THEN [kind |-> "return", value |-> Null, warned |-> {},
                  logged |-> "Failed to parse tool call arguments",
                  decoded |-> TRUE]
            ELSE LET syn == SynthesizeAllParams(ObjectEntries(j.v),
                                                [params |-> NoParams, warned |-> {}])
                 IN [kind |-> "return",
                     value |-> ToolUse(toolCall.name, syn.params, Undef),
                     warned |-> syn.warned, logged |-> "none", decoded |-> TRUE]

(***************************************************************************)
(* Inputs: the argument texts the model sends to the parser.               *)
(***************************************************************************)
sA == <<"a">>
sB == <<"b">>
sLs == <<"l", "s">>
s12 == <<"1", "2">>
s12p5 == <<"1", "2", ".", "5">>
s12x == <<"1", "2", "x">>
sSp7 == <<" ", "7">>

\* {"path": "a", "line": <tok>, "content": "b"}
InsertText(tok) ==
    <<LB, K("path"), CL, S(sA), CM, K("line"), CL, tok, CM, K("content"), CL, S(sB), RB>>

\* [{"path": "a", "line_ranges": [[1,5]]}]
FilesList1 ==
    <<LK, LB, K("path"), CL, S(sA), CM, K("line_ranges"), CL,
      LK, LK, N(10), CM, N(50), RK, RK, RB, RK>>
\* [{"path": "a", "line_ranges": []}]
FilesList0 ==
    <<LK, LB, K("path"), CL, S(sA), CM, K("line_ranges"), CL, LK, RK, RB, RK>>
\* [{"path": "a"}, {"path": "b"}]
FilesList2 ==
    <<LK, LB, K("path"), CL, S(sA), RB, CM, LB, K("path"), CL, S(sB), RB, RK>>

\* Texts that are JSON but no object.
ScalarTexts ==
    {<<TNull>>, <<N(50)>>, <<N(0)>>, <<S(sA)>>, <<TTrue>>, <<LK, RK>>,
     <<LK, S(sA), CM, N(10), RK>>}

\* Texts of JSON objects.
ObjectTexts ==
    {<<LB, RB>>,
     <<LB, K("path"), CL, S(sA), RB>>,
     <<LB, K("path"), CL, S(<<>>), RB>>,
     <<LB, K("path"), CL, N(50), RB>>,
     <<LB, K("path"), CL, TNull, RB>>,
     <<LB, K("path"), CL, S(sA), CM, K("path"), CL, S(sB), RB>>,
     <<LB, K("path"), CL, S(sA), CM, K("bogus"), CL, N(10), RB>>,
     <<LB, K("bogus"), CL, LB, K("path"), CL, S(sA), RB, RB>>,
     <<LB, K("files"), CL>> \o FilesList1 \o <<RB>>,
     <<LB, K("files"), CL>> \o FilesList0 \o <<RB>>,
     <<LB, K("files"), CL>> \o FilesList2 \o <<RB>>,
     <<LB, K("files"), CL, LK, RK, RB>>,
     <<LB, K("files"), CL>> \o FilesList1 \o <<CM, K("path"), CL, S(sB), RB>>,
     <<LB, K("files"), CL, LK, RK, CM, K("path"), CL, S(sB), RB>>,
     <<LB, K("files"), CL, S(sA), CM, K("path"), CL, S(sB), RB>>,
     <<LB, K("files"), CL, S(sA), RB>>,
     <<LB, K("result"), CL, S(sA), RB>>,
     <<LB, K("result"), CL, S(<<>>), RB>>,
     <<LB, K("result"), CL, S(sA), CM, K("command"), CL, S(sLs), RB>>,
     <<LB, K("command"), CL, S(sLs), RB>>,
     <<LB, K("command"), CL, S(sLs), CM, K("cwd"), CL, S(sA), RB>>,
     InsertText(S(s12)), InsertText(N(120)), InsertText(N(125)),
     InsertText(S(s12p5)), InsertText(S(s12x)), InsertText(S(sA)),
     InsertText(S(sSp7)), InsertText(N(0)), InsertText(N(-30)),
     InsertText(TNull), InsertText(TTrue), InsertText(S(<<>>)),
     <<LB, K("path"), CL, S(sA), CM, K("line"), CL, N(120), RB>>,
     <<LB, K("path"), CL, S(sA), CM, K("diff"), CL, S(sB), RB>>,
     <<LB, K("question"), CL, S(sA), CM, K("follow_up"), CL,
       LK, LB, K("text"), CL, S(sB), RB, RK, RB>>,
     <<LB, K("question"), CL, S(sA), RB>>,
     <<LB, K("action"), CL, S(sA), CM, K("url"), CL, S(sB), RB>>,
     <<LB, K("url"), CL, S(sB), RB>>,
     <<LB, K("query"), CL, S(sA), RB>>,
     <<LB, K("task"), CL, S(sA), RB>>,
     <<LB, K("path"), CL, S(sA), CM, K("recursive"), CL, TTrue, RB>>,
     <<LB, K("mode"), CL, S(sA), CM, K("message"), CL, S(sB), RB>>}

\* Texts that are not JSON.
MalformedTexts ==
    {<<>>, <<LB>>, <<Junk>>,
     <<LB, K("path"), CL, S(sA)>>,
     <<LB, K("path"), S(sA), RB>>,
     <<LB, K("path"), CL, S(sA), CM, RB>>,
     <<LB, K("path"), CL, RB>>,
     <<LB, RB, RB>>,
     <<LB, S(sA), RB>>,
     <<LK, N(10), CM, RK>>,
     <<LB, K("result"), CL, Junk, RB>>}

ArgTexts == ScalarTexts \cup ObjectTexts \cup MalformedTexts

\* Names given to the parser: the closed set and names outside it.
CallNames == toolNames \cup {"bogus_tool", ""}

ToolCall(name, text) == [id |-> "call_1", name |-> name, arguments |-> text]

\* The text with members of unknown keys added to its top-level object, at
\* the front, at the back, or both.
UnknownMembers == {<<K("bogus"), CL, N(10)>>,
                   <<K("extra"), CL, S(sA)>>,
                   <<K("files_"), CL, LK, RK, CM, K("bogus"), CL, TNull>>}
WithUnknownKeys(text) ==
    IF Len(text) < 2 \/ text[1] # LB \/ text[Len(text)] # RB THEN {}
    ELSE LET inner == SubSeq(text, 2, Len(text) - 1)
             sep == IF inner = <<>> THEN <<>> ELSE <<CM>>
         IN {<<LB>> \o m \o sep \o inner \o <<RB>> : m \in UnknownMembers}
            \cup {<<LB>> \o inner \o sep \o m \o <<RB>> : m \in UnknownMembers}
            \cup {<<LB>> \o m1 \o sep \o inner \o <<CM>> \o m2 \o <<RB>> :
                    m1 \in UnknownMembers, m2 \in UnknownMembers}

(***************************************************************************)
(* State.                                                                  *)
(***************************************************************************)
VARIABLES
    pc,         \* position of the driver: idle, parsed, streaming, awaiting, done
    nCalls,     \* calls the driver has started (parser calls and invocations)
    rejected,   \* the errors the parser has logged for the calls it rejected
    toolCall,   \* the native call last given to the parser
    parsed,     \* what parseToolCall did with it
    parsedOld,  \* what the earlier parseToolCall did with it
    block,      \* the ToolUse snapshot last passed to BaseTool.handle
    stream,     \* the legacy stream of the current invocation
    log,        \* the call of handle in progress or last returned: the
                \* block, the calls made, the task before and after it,
                \* and the text of the partial UI message it showed
    env,        \* what the current execute read from outside the task
    wait,       \* the await the current execute is suspended at
    cline       \* the task

vars == <<pc, nCalls, rejected, toolCall, parsed, parsedOld, block, stream,
          log, env, wait, cline>>

None == [type |-> "none"]
NoMessage == [kind |-> "none"]

\* The task as the tools of this layer see it.
NewTaskState ==
    [consecutiveMistakeCount |-> 0,
     toolErrors |-> 0,
     lastMessage |-> NoMessage,
     userMessageContent |-> 0,
     pausedModeSlug |-> "none",
     childTasks |-> 0]

invocationVars == <<block, stream, log, env, wait>>
parserVars == <<toolCall, parsed, parsedOld>>

Init ==
    /\ pc = "idle"
    /\ nCalls = 0
    /\ rejected = {}
    /\ toolCall = None
    /\ parsed = None
    /\ parsedOld = None
    /\ block = None
    /\ stream = None
    /\ log = <<>>
    /\ env = None
    /\ wait = None
    /\ cline = NewTaskState

(***************************************************************************)
(* Helpers shared by the concrete tools.                                   *)
(***************************************************************************)
\* params.k of a legacy params object: the string, or undefined.
Param(params, k) == IF k \in DOMAIN params THEN JStr(params[k]) ELSE Undef

\* v || ""
OrEmpty(v) == IF Truthy(v) THEN v ELSE JStr(<<>>)

Uppers == <<"A", "B", "C", "D", "E", "F", "G", "H", "I", "J", "K", "L", "M",
            "N", "O", "P", "Q", "R", "S", "T", "U", "V", "W", "X", "Y", "Z">>
Lowers == <<"a", "b", "c", "d", "e", "f", "g", "h", "i", "j", "k", "l", "m",
            "n", "o", "p", "q", "r", "s", "t", "u", "v", "w", "x", "y", "z">>
LowerChar(c) ==
    IF \E i \in DOMAIN Uppers : Uppers[i] = c
    THEN Lowers[CHOOSE i \in DOMAIN Uppers : Uppers[i] = c]
    ELSE c
\* String.prototype.toLowerCase
toLowerCase(s) == [i \in DOMAIN s |-> LowerChar(s[i])]

\* s matches c1? c2? ... cn? for the characters c1..cn of tag.
RECURSIVE MatchesOptionalChars(_, _)
MatchesOptionalChars(s, tag) ==
    IF s = <<>> THEN TRUE
    ELSE IF tag = <<>> THEN FALSE
    ELSE IF Head(s) = Head(tag) THEN MatchesOptionalChars(Tail(s), Tail(tag))
    ELSE MatchesOptionalChars(s, Tail(tag))

\* s matches \s?<\/?c1?...cn? as a whole.
MatchesTagTail(s, tag) ==
    LET t == IF s # <<>> /\ IsSpace(Head(s)) THEN Tail(s) ELSE s
    IN /\ t # <<>>
       /\ Head(t) = "<"
       /\ LET u == Tail(t)
              w == IF u # <<>> /\ Head(u) = "/" THEN Tail(u) ELSE u
          IN MatchesOptionalChars(w, tag)

\* removeClosingTag(tag, text, isPartial): the text without a trailing,
\* possibly incomplete, closing tag (the leftmost match of the pattern that
\* reaches the end of the text).
removeClosingTag(tag, text, isPartial) ==
    IF ~isPartial THEN (IF Truthy(text) THEN text.s ELSE <<>>)
    ELSE IF ~Truthy(text) THEN <<>>
    ELSE LET s == text.s
             starts == {i \in DOMAIN s : MatchesTagTail(SubSeq(s, i, Len(s)), KeyChars(tag))}
         IN IF starts = {} THEN s
            ELSE SubSeq(s, 1, (CHOOSE i \in starts : \A j \in starts : i <= j) - 1)

\* Events of the log: a call the dispatcher makes, and a call a tool makes
\* on the task or on its callbacks.
Call(m, val) == [by |-> "handle", ev |-> m, val |-> val]
Cb(by, ev, arg) == [by |-> by, ev |-> ev, arg |-> arg]
\* A say or an ask of the given message type; partial marks a streaming
\* update of the UI, not a message of the conversation.
Ui(by, ev, type, partial) == [by |-> by, ev |-> ev, arg |-> type, partial |-> partial]

\* Task.say / Task.ask: the message becomes the last message of the task.
Said(c, type, partial) ==
    [c EXCEPT !.lastMessage = [kind |-> "say", type |-> type, partial |-> partial]]
Asked(c, type, partial) ==
    [c EXCEPT !.lastMessage = [kind |-> "ask", type |-> type, partial |-> partial]]

\* consecutiveMistakeCount++ ; recordToolError(name)
Mistake(c) ==
    [c EXCEPT !.consecutiveMistakeCount = @ + 1, !.toolErrors = @ + 1]

\* How a method ends: the task, the events in order, the last partial text
\* shown, the await it is suspended at (none when it returned), what the
\* rest of the method needs, and whether the method has returned to its
\* caller (a caller that awaits a suspended method is suspended with it).
Ended(c, evs) ==
    [cline |-> c, evs |-> evs, wait |-> "none", k |-> None, echo |-> Undef,
     returned |-> TRUE]
Suspended(c, evs, at, k) ==
    [cline |-> c, evs |-> evs, wait |-> at, k |-> k, echo |-> Undef,
     returned |-> FALSE]

(***************************************************************************)
(* AttemptCompletionTool                                                   *)
(***************************************************************************)
AttemptCompletion_parseLegacy(params) ==
    JObj(<<Ent("result", OrEmpty(Param(params, "result"))),
           Ent("command", Param(params, "command"))>>)

\* A gate that uses every in place of some.
HasIncompleteTodos_Every(todoList) ==
    todoList # <<>> /\ \A i \in DOMAIN todoList : todoList[i] # "completed"

\* cline.todoList && cline.todoList.some((todo) => todo.status !== "completed")
HasIncompleteTodos(todoList) ==
    \E i \in DOMAIN todoList : todoList[i] # "completed"

\* An execute without the check of the result.
AttemptCompletion_execute_NoResultCheck(params, c, e) ==
    LET result == Prop(params, "result")
        by == "attempt_completion.execute"
    IN IF e.preventCompletionWithOpenTodos /\ HasIncompleteTodos(e.todoList)
       THEN Ended(Mistake(c),
                  <<Cb(by, "recordToolError", "attempt_completion"),
                    Cb(by, "pushToolResult", "error: incomplete todos")>>)
       ELSE LET c1 == Said([c EXCEPT !.consecutiveMistakeCount = 0],
                           "completion_result", FALSE)
                evs == <<Ui(by, "say", "completion_result", FALSE),
                         Cb(by, "captureTaskCompleted", "telemetry"),
                         Cb(by, "emit", "TaskCompleted")>>
            IN IF e.parentTask
               THEN Suspended(c1, Append(evs, Cb(by, "askFinishSubTaskApproval", "")),
                              "askFinishSubTaskApproval", result)
               ELSE Suspended(Asked(c1, "completion_result", FALSE),
                              Append(evs, Ui(by, "ask", "completion_result", FALSE)),
                              "ask completion_result", result)

\* execute up to its first await on the user.
AttemptCompletion_execute(params, c, e) ==
    LET result == Prop(params, "result")
        by == "attempt_completion.execute"
    IN IF e.preventCompletionWithOpenTodos /\ HasIncompleteTodos(e.todoList)
       THEN Ended(Mistake(c),
                  <<Cb(by, "recordToolError", "attempt_completion"),
                    Cb(by, "pushToolResult", "error: incomplete todos")>>)
       ELSE IF ~Truthy(result)
       THEN Ended(Said(Mistake(c), "error", FALSE),
                  <<Cb(by, "recordToolError", "attempt_completion"),
                    Ui(by, "say", "error", FALSE),
                    Cb(by, "pushToolResult", "error: missing result")>>)
       ELSE LET c1 == Said([c EXCEPT !.consecutiveMistakeCount = 0],
                           "completion_result", FALSE)
                evs == <<Ui(by, "say", "completion_result", FALSE),
                         Cb(by, "captureTaskCompleted", "telemetry"),
                         Cb(by, "emit", "TaskCompleted")>>
            IN IF e.parentTask
               THEN Suspended(c1, Append(evs, Cb(by, "askFinishSubTaskApproval", "")),
                              "askFinishSubTaskApproval", result)
               ELSE Suspended(Asked(c1, "completion_result", FALSE),
                              Append(evs, Ui(by, "ask", "completion_result", FALSE)),
                              "ask completion_result", result)

\* The rest of execute once the await resolved with answer a.
AttemptCompletion_resume(at, a, c, e) ==
    LET by == "attempt_completion.execute"
    IN IF at = "askFinishSubTaskApproval"
       THEN IF ~a.approved THEN Ended(c, <<>>)
            ELSE IF e.providerAlive
            THEN Ended(c, <<Cb(by, "finishSubTask", "")>>)
            ELSE Ended(c, <<>>)
       ELSE IF a.approved
       THEN Ended(c, <<Cb(by, "pushToolResult", "")>>)
       ELSE Ended([Said(c, "user_feedback", FALSE) EXCEPT !.userMessageContent = @ + 2],
                  <<Ui(by, "say", "user_feedback", FALSE)>>)

AttemptCompletion_handlePartial(c, b) ==
    LET result == Param(b.params, "result")
        command == Param(b.params, "command")
        lastMessage == c.lastMessage
        by == "attempt_completion.handlePartial"
        cmdText == removeClosingTag("command", command, b.partial)
        resText == removeClosingTag("result", result, b.partial)
    IN IF Truthy(command)
       THEN IF lastMessage.kind = "ask" /\ lastMessage.type = "command"
            THEN [Ended(Asked(c, "command", b.partial),
                        <<Ui(by, "ask", "command", b.partial)>>)
                  EXCEPT !.echo = JStr(cmdText)]
            ELSE [Ended(Asked(c, "command", b.partial),
                        <<Ui(by, "say", "completion_result", FALSE),
                          Cb(by, "captureTaskCompleted", "telemetry"),
                          Cb(by, "emit", "TaskCompleted"),
                          Ui(by, "ask", "command", b.partial)>>)
                  EXCEPT !.echo = JStr(cmdText)]
       ELSE [Ended(Said(c, "completion_result", b.partial),
                   <<Ui(by, "say", "completion_result", b.partial)>>)
             EXCEPT !.echo = JStr(resText)]

(***************************************************************************)
(* NewTaskTool                                                             *)
(***************************************************************************)
NewTask_parseLegacy(params) ==
    JObj(<<Ent("mode", OrEmpty(Param(params, "mode"))),
           Ent("message", OrEmpty(Param(params, "message"))),
           Ent("todos", Param(params, "todos"))>>)

\* A replacement that drops both backslashes.
RECURSIVE Unescape_DropsBoth(_)
Unescape_DropsBoth(s) ==
    IF s = <<>> THEN <<>>
    ELSE IF Len(s) >= 3 /\ s[1] = "\\" /\ s[2] = "\\" /\ s[3] = "@"
    THEN <<"@">> \o Unescape_DropsBoth(SubSeq(s, 4, Len(s)))
    ELSE <<Head(s)>> \o Unescape_DropsBoth(Tail(s))

\* An un-escaping that drops the backslash before every '@' that has one.
RECURSIVE Unescape_AnySlash(_)
Unescape_AnySlash(s) ==
    IF s = <<>> THEN <<>>
    ELSE IF Len(s) >= 2 /\ s[1] = "\\" /\ s[2] = "@"
    THEN <<"@">> \o Unescape_AnySlash(SubSeq(s, 3, Len(s)))
    ELSE <<Head(s)>> \o Unescape_AnySlash(Tail(s))

\* message.replace(/\\\\@/g, "\\@"): every non-overlapping occurrence, from
\* the left, of two backslashes and '@' becomes one backslash and '@'.
RECURSIVE Unescape(_)
Unescape(s) ==
    IF s = <<>> THEN <<>>
    ELSE IF Len(s) >= 3 /\ s[1] = "\\" /\ s[2] = "\\" /\ s[3] = "@"
    THEN <<"\\", "@">> \o Unescape(SubSeq(s, 4, Len(s)))
    ELSE <<Head(s)>> \o Unescape(Tail(s))

\* An approval that is requested whether the mode exists or not.
NewTask_verifyModeAndAsk_NoCheck(c, evs, e, k) ==
    Suspended(c,
              evs \o <<Cb("new_task.execute", "getModeBySlug",
                          IF e.modeKnown THEN "mode" ELSE "undefined"),
                       Cb("new_task.execute", "askApproval", "tool")>>,
              "askApproval", k)

\* getModeBySlug(mode, state?.customModes), the error when there is no such
\* mode, else the await on askApproval.
NewTask_verifyModeAndAsk(c, evs, e, k) ==
    LET by == "new_task.execute"
    IN IF ~e.modeKnown
       THEN Ended(c, evs \o <<Cb(by, "getModeBySlug", "undefined"),
                              Cb(by, "pushToolResult", "error: Invalid mode")>>)
       ELSE Suspended(c,
                      evs \o <<Cb(by, "getModeBySlug", "mode"),
                               Cb(by, "askApproval", "tool")>>,
                      "askApproval", k)

\* An execute whose catch of the checklist error only falls back to no todos.
NewTask_execute_IgnoresBadTodos(params, c, e) ==
    LET mode == Prop(params, "mode")
        message == Prop(params, "message")
        todos == Prop(params, "todos")
        by == "new_task.execute"
        missing(name) ==
            Ended(Said(Mistake(c), "error", FALSE),
                  <<Cb(by, "recordToolError", "new_task"),
                    Ui(by, "say", "error", FALSE),
                    Cb(by, "pushToolResult", name)>>)
    IN IF ~Truthy(mode) THEN missing("error: missing mode")
       ELSE IF ~Truthy(message) THEN missing("error: missing message")
       ELSE IF ~e.providerAlive
       THEN Ended(c, <<Cb(by, "pushToolResult", "error: Provider reference lost")>>)
       ELSE IF e.newTaskRequireTodos /\ todos = Undef
       THEN missing("error: missing todos")
       ELSE LET c1 == [c EXCEPT !.consecutiveMistakeCount = 0]
                unescapedMessage == Unescape(message.s)
                checklist == IF ~Truthy(todos) THEN <<>>
                          ELSE IF e.todosParseFails
                          THEN <<Cb(by, "parseMarkdownChecklist", "throws")>>
                          ELSE <<Cb(by, "parseMarkdownChecklist", "returns")>>
            IN NewTask_verifyModeAndAsk(c1, checklist, e, JStr(unescapedMessage))

\* execute up to its await on askApproval.
NewTask_execute(params, c, e) ==
    LET mode == Prop(params, "mode")
        message == Prop(params, "message")
        todos == Prop(params, "todos")
        by == "new_task.execute"
        missing(name) ==
            Ended(Said(Mistake(c), "error", FALSE),
                  <<Cb(by, "recordToolError", "new_task"),
                    Ui(by, "say", "error", FALSE),
                    Cb(by, "pushToolResult", name)>>)
    IN IF ~Truthy(mode) THEN missing("error: missing mode")
       ELSE IF ~Truthy(message) THEN missing("error: missing message")
       ELSE IF ~e.providerAlive
       THEN Ended(c, <<Cb(by, "pushToolResult", "error: Provider reference lost")>>)
       ELSE IF e.newTaskRequireTodos /\ todos = Undef
       THEN missing("error: missing todos")
       ELSE IF Truthy(todos) /\ e.todosParseFails
       THEN Ended(Mistake(c),
                  <<Cb(by, "parseMarkdownChecklist", "throws"),
                    Cb(by, "recordToolError", "new_task"),
                    Cb(by, "pushToolResult", "error: Invalid todos format")>>)
       ELSE LET c1 == [c EXCEPT !.consecutiveMistakeCount = 0]
                unescapedMessage == Unescape(message.s)
                checklist == IF ~Truthy(todos) THEN <<>>
                          ELSE <<Cb(by, "parseMarkdownChecklist", "returns")>>
            IN NewTask_verifyModeAndAsk(c1, checklist, e, JStr(unescapedMessage))

\* The rest of execute once askApproval resolved with answer a.
NewTask_resume(at, a, c, e, k) ==
    LET by == "new_task.execute"
    IN IF ~a.approved THEN Ended(c, <<>>)
       ELSE LET c1 == [c EXCEPT !.pausedModeSlug = "current mode"]
                save == IF e.enableCheckpoints
                        THEN <<Cb(by, "checkpointSave", "")>> ELSE <<>>
                start == [by |-> by, ev |-> "startSubtask", val |-> k]
            IN IF ~e.subtaskCreated
               THEN Ended(c1, save \o <<start,
                              Cb(by, "pushToolResult", "policy restriction")>>)
               ELSE Ended([c1 EXCEPT !.childTasks = @ + 1],
                          save \o <<start,
                              Cb(by, "pushToolResult", "Successfully created new task")>>)

NewTask_handlePartial(c, b) ==
    LET by == "new_task.handlePartial"
        partialMessage ==
            JObj(<<Ent("tool", JStr(<<"n", "e", "w", "T", "a", "s", "k">>)),
                   Ent("mode", JStr(removeClosingTag("mode", Param(b.params, "mode"), b.partial))),
                   Ent("content", JStr(removeClosingTag("message", Param(b.params, "message"), b.partial))),
                   Ent("todos", JStr(removeClosingTag("todos", Param(b.params, "todos"), b.partial)))>>)
    IN [Ended(Asked(c, "tool", b.partial), <<Ui(by, "ask", "tool", b.partial)>>)
        EXCEPT !.echo = partialMessage]

(***************************************************************************)
(* ListFilesTool                                                           *)
(***************************************************************************)
\* A parseLegacy that compares the raw string, case and all.
ListFiles_parseLegacy_CaseSensitive(params) ==
    LET recursiveRaw == Param(params, "recursive")
        recursive == recursiveRaw # Undef
                     /\ recursiveRaw.s = <<"t", "r", "u", "e">>
    IN JObj(<<Ent("path", OrEmpty(Param(params, "path"))),
              Ent("recursive", JBool(recursive))>>)

ListFiles_parseLegacy(params) ==
    LET recursiveRaw == Param(params, "recursive")
        recursive == recursiveRaw # Undef
                     /\ toLowerCase(recursiveRaw.s) = <<"t", "r", "u", "e">>
    IN JObj(<<Ent("path", OrEmpty(Param(params, "path"))),
              Ent("recursive", JBool(recursive))>>)

\* execute up to its await on askApproval.
ListFiles_execute(params, c, e) ==
    LET relDirPath == Prop(params, "path")
        recursive == Prop(params, "recursive")
        by == "list_files.execute"
    IN IF ~Truthy(relDirPath)
       THEN Ended(Said(Mistake(c), "error", FALSE),
                  <<Cb(by, "recordToolError", "list_files"),
                    Ui(by, "say", "error", FALSE),
                    Cb(by, "pushToolResult", "error: missing path")>>)
       ELSE Suspended([c EXCEPT !.consecutiveMistakeCount = 0],
                      <<Cb(by, "listFiles",
                           IF Truthy(recursive) THEN "recursive" ELSE "top level"),
                        Cb(by, "askApproval", "tool")>>,
                      "askApproval", [didHitLimit |-> e.didHitLimit])

\* A rest of execute that pushes the listing whatever the answer was.
ListFiles_resume_AlwaysPushes(at, a, c, e, k) ==
    Ended(c, <<Cb("list_files.execute", "pushToolResult",
                  IF k.didHitLimit THEN "listing (truncated)" ELSE "listing")>>)

ListFiles_resume(at, a, c, e, k) ==
    IF ~a.approved THEN Ended(c, <<>>)
    ELSE Ended(c, <<Cb("list_files.execute", "pushToolResult",
                       IF k.didHitLimit THEN "listing (truncated)" ELSE "listing")>>)

ListFiles_handlePartial(c, b) ==
    LET by == "list_files.handlePartial"
        relDirPath == Param(b.params, "path")
        recursiveRaw == Param(b.params, "recursive")
        recursive == recursiveRaw # Undef
                     /\ toLowerCase(recursiveRaw.s) = <<"t", "r", "u", "e">>
        partialMessage ==
            JObj(<<Ent("tool", JStr(IF ~recursive
                                    THEN <<"t", "o", "p">> ELSE <<"r", "e", "c">>)),
                   Ent("path", JStr(removeClosingTag("path", relDirPath, b.partial))),
                   Ent("content", JStr(<<>>))>>)
    IN [Ended(Asked(c, "tool", b.partial), <<Ui(by, "ask", "tool", b.partial)>>)
        EXCEPT !.echo = partialMessage]

(***************************************************************************)
(* The parser, called by the driver of the native protocol.                *)
(***************************************************************************)
CallParser(tc) ==
    /\ nCalls < MaxCalls
    /\ nCalls' = nCalls + 1
    /\ toolCall' = tc
    /\ parsed' = parseToolCall(tc)
    /\ parsedOld' = parseToolCallUntyped(tc)
    /\ rejected' = IF parseToolCall(tc).value = Null
                   THEN rejected \cup {parseToolCall(tc).logged}
                   ELSE rejected
    /\ pc' = "parsed"
    /\ UNCHANGED <<invocationVars, cline>>

\* The caller takes the result; the call record is dropped.
ReturnToCaller ==
    /\ pc = "parsed"
    /\ pc' = "idle"
    /\ toolCall' = None
    /\ parsed' = None
    /\ parsedOld' = None
    /\ UNCHANGED <<nCalls, rejected, invocationVars, cline>>

\* The parser on its own: any name with any text, call after call.
ParseAny ==
    /\ pc = "idle"
    /\ \E name \in CallNames, text \in ArgTexts : CallParser(ToolCall(name, text))

NextParser == ParseAny \/ ReturnToCaller

SpecParser == Init /\ [][NextParser]_vars

\* The decoded arguments of the call last parsed.
Decoded == JSONparse(toolCall.arguments)
Accepted == pc = "parsed" /\ parsed.value # Null

(***************************************************************************)
(* Claims about the parser.                                                *)
(***************************************************************************)
\* The texts meant as JSON parse, the others do not.
TextsSane ==
    /\ \A t \in ScalarTexts \cup ObjectTexts : JSONparse(t).ok
    /\ \A t \in MalformedTexts : ~JSONparse(t).ok

IsInvocationOf(out, name) ==
    /\ out.kind = "return"
    /\ out.value # Null
    /\ out.value.name = name
    /\ out.value.partial = FALSE

\* C1 as stated: for every tool name of the closed set and every arguments
\* text that is well-formed JSON, whatever it decodes to, parseToolCall
\* returns an invocation of that name with partial = false.
C1_AnyJsonAccepted ==
    (pc = "parsed" /\ ValidToolName(toolCall.name) /\ Decoded.ok)
        => IsInvocationOf(parsed, toolCall.name)

\* C2: for a name outside the closed Tool Name set parseToolCall returns
\* null whatever the arguments are, and JSON.parse is never invoked.
C2_UnknownNameRejected ==
    (pc = "parsed" /\ toolCall.name \notin toolNames)
        => /\ parsed.kind = "return"
           /\ parsed.value = Null
           /\ ~parsed.decoded

C2_Witness ==
    /\ pc = "parsed" /\ toolCall.name \notin toolNames
    /\ toolCall.arguments \in ObjectTexts
    /\ parsed.value = Null

\* C3: for a valid tool name and a text that is not JSON parseToolCall
\* returns null and raises nothing; and the failure ends with that call: a
\* later call with a valid name and a JSON object still yields an invocation.
C3_MalformedRejectedNoThrow ==
    /\ (pc = "parsed" /\ ValidToolName(toolCall.name) /\ ~Decoded.ok)
          => (parsed.kind = "return" /\ parsed.value = Null)
    /\ (pc = "parsed" /\ ValidToolName(toolCall.name)
        /\ "Failed to parse tool call arguments" \in rejected
        /\ Decoded.ok /\ Decoded.v.t = "obj")
          => IsInvocationOf(parsed, toolCall.name)

C3_Witness ==
    /\ pc = "parsed"
    /\ "Failed to parse tool call arguments" \in rejected
    /\ nCalls = 2
    /\ IsInvocationOf(parsed, toolCall.name)

\* C7: every key of the params of an accepted call is a Parameter Name, and
\* adding members with keys outside the Parameter Name set to the arguments
\* object leaves the call accepted, with the same params and nativeArgs.
C7_UnknownKeysDropped ==
    Accepted =>
        /\ DOMAIN parsed.value.params \subseteq toolParamNames
        /\ \A t \in WithUnknownKeys(toolCall.arguments) :
              parseToolCall(ToolCall(toolCall.name, t)).value = parsed.value

C7_Witness ==
    /\ Accepted
    /\ "bogus" \in parsed.warned
    /\ DOMAIN parsed.value.params = {"path"}

\* [{path: p, lineRanges: []}]
SingleEntry(p) ==
    JArr(<<JObj(<<Ent("path", p), Ent("lineRanges", JArr(<<>>))>>)>>)

ReadFileCall ==
    Accepted /\ toolCall.name = "read_file" /\ Decoded.v.t = "obj"

\* C9 as stated: for read_file, {"path": p} with any string p yields the
\* one-entry list [{path: p, lineRanges: []}], {"files": L} with L a list
\* yields L itself, and with both given the files list is used.
C9_ReadFileShapes ==
    ReadFileCall =>
        LET files == Prop(Decoded.v, "files")
            path == Prop(Decoded.v, "path")
        IN /\ files.t = "arr" => parsed.value.nativeArgs = files
           /\ (files = Undef /\ path.t = "str")
                 => parsed.value.nativeArgs = SingleEntry(path)

\* C9 amended: the single-path shape yields the one-entry list for every
\* non-empty string p; the list shape yields the list itself, also when a
\* path is given with it.
C9_ReadFileShapesNonEmptyPath ==
    ReadFileCall =>
        LET files == Prop(Decoded.v, "files")
            path == Prop(Decoded.v, "path")
        IN /\ files.t = "arr" => parsed.value.nativeArgs = files
           /\ (files = Undef /\ path.t = "str" /\ path.s # <<>>)
                 => parsed.value.nativeArgs = SingleEntry(path)

C9_Witness ==
    /\ ReadFileCall
    /\ Prop(Decoded.v, "files") = Undef
    /\ Prop(Decoded.v, "path") = JStr(sA)
    /\ parsed.value.nativeArgs = SingleEntry(JStr(sA))

\* The numbers (in tenths) a numeric string can denote in this model.
Denotes(s) == {n \in -200 .. 200 : NumChars(n) = s}

InsertContentCall ==
    /\ Accepted /\ toolCall.name = "insert_content"
    /\ Prop(Decoded.v, "path") # Undef
    /\ Prop(Decoded.v, "line") # Undef
    /\ Prop(Decoded.v, "content") # Undef

\* C10: for insert_content with path, line and content present, the native
\* line is an integer whenever line is a number or a numeric string, and a
\* numeric string yields the same native line as the number it denotes.
C10_LineIsInteger ==
    InsertContentCall =>
        LET line == Prop(Decoded.v, "line")
            native == Prop(parsed.value.nativeArgs, "line")
        IN /\ line.t = "num" => IsInteger(native)
           /\ (line.t = "str" /\ Denotes(line.s) # {})
                 => /\ IsInteger(native)
                    /\ \A n \in Denotes(line.s) : native = LineNumber(JTenths(n))


(***************************************************************************)
(* BaseTool: the dispatch of one snapshot to the tool of its name.         *)
(***************************************************************************)
ConcreteTools == {"attempt_completion", "new_task", "list_files"}

\* this.parseLegacy(block.params).  For the tools whose class is not in the
\* sources the method is the abstract one: it returns some typed params or
\* throws.
Tool_parseLegacy(name, params, e) ==
    IF name = "attempt_completion"
    THEN [kind |-> "return", value |-> AttemptCompletion_parseLegacy(params)]
    ELSE IF name = "new_task"
    THEN [kind |-> "return", value |-> NewTask_parseLegacy(params)]
    ELSE IF name = "list_files"
    THEN [kind |-> "return", value |-> ListFiles_parseLegacy(params)]
    ELSE IF e.parseLegacyThrows THEN [kind |-> "throw", value |-> None]
    ELSE [kind |-> "return", value |-> [t |-> "legacy", params |-> params]]

\* this.execute(params, cline, callbacks), up to its first await on the user.
Tool_execute(name, params, c, e) ==
    IF name = "attempt_completion" THEN AttemptCompletion_execute(params, c, e)
    ELSE IF name = "new_task" THEN NewTask_execute(params, c, e)
    ELSE IF name = "list_files" THEN ListFiles_execute(params, c, e)
    ELSE Ended(c, <<>>)

\* The rest of this.execute after the await.
Tool_resume(name, at, a, c, e, k) ==
    IF name = "attempt_completion" THEN AttemptCompletion_resume(at, a, c, e)
    ELSE IF name = "new_task" THEN NewTask_resume(at, a, c, e, k)
    ELSE ListFiles_resume(at, a, c, e, k)

\* this.handlePartial(cline, block): the default does nothing.
Tool_handlePartial(name, c, b) ==
    IF name = "attempt_completion" THEN AttemptCompletion_handlePartial(c, b)
    ELSE IF name = "new_task" THEN NewTask_handlePartial(c, b)
    ELSE IF name = "list_files" THEN ListFiles_handlePartial(c, b)
    ELSE Ended(c, <<>>)

\* A resolution that parses the legacy params whatever the block carries.
ResolveParams_LegacyFirst(b, e) ==
    LET r == Tool_parseLegacy(b.name, b.params, e)
    IN [kind |-> r.kind, value |-> r.value,
        evs |-> <<Call("parseLegacy", [params |-> b.params, kind |-> r.kind])>>]

\* The try block of handle: the params of the protocol the block came by.
ResolveParams(b, e) ==
    IF b.nativeArgs # Undef
    THEN [kind |-> "return", value |-> b.nativeArgs,
          evs |-> <<Call("useNativeArgs", b.nativeArgs)>>]
    ELSE LET r == Tool_parseLegacy(b.name, b.params, e)
         IN [kind |-> r.kind, value |-> r.value,
             evs |-> <<Call("parseLegacy", [params |-> b.params, kind |-> r.kind])>>]

\* A dispatch without the early return of the partial branch: a complete
\* block is echoed as well before it is resolved and executed.
handle_EchoesComplete(b, c, e) ==
    LET h == Tool_handlePartial(b.name, c, b)
        echoed == <<Call("handlePartial", [params |-> b.params])>> \o h.evs
    IN IF b.partial THEN [h EXCEPT !.evs = echoed]
       ELSE LET p == ResolveParams(b, e)
            IN IF p.kind = "throw"
               THEN Ended(h.cline,
                          echoed \o p.evs \o
                          <<Cb("handle", "handleError", "parsing args"),
                            Cb("handle", "pushToolResult", "<error>")>>)
               ELSE LET r == Tool_execute(b.name, p.value, h.cline, e)
                    IN [r EXCEPT !.evs = echoed \o p.evs \o <<Call("execute", p.value)>> \o @]

\* A dispatch whose catch block reports the error and then falls through
\* to execute with no params.
handle_ExecutesAfterError(b, c, e) ==
    IF b.partial
    THEN LET r == Tool_handlePartial(b.name, c, b)
         IN [r EXCEPT !.evs = <<Call("handlePartial", [params |-> b.params])>> \o @]
    ELSE LET p == ResolveParams(b, e)
             failed == IF p.kind = "throw"
                       THEN <<Cb("handle", "handleError", "parsing args"),
                              Cb("handle", "pushToolResult", "<error>")>>
                       ELSE <<>>
             r == Tool_execute(b.name, p.value, c, e)
         IN [r EXCEPT !.evs = p.evs \o failed \o <<Call("execute", p.value)>> \o @]

\* A dispatch that starts execute without awaiting it: handle returns
\* while execute is still suspended.
handle_NoAwait(b, c, e) ==
    IF b.partial
    THEN LET r == Tool_handlePartial(b.name, c, b)
         IN [r EXCEPT !.evs = <<Call("handlePartial", [params |-> b.params])>> \o @]
    ELSE LET p == ResolveParams(b, e)
         IN IF p.kind = "throw"
            THEN Ended(c, p.evs \o <<Cb("handle", "handleError", "parsing args"),
                                     Cb("handle", "pushToolResult", "<error>")>>)
            ELSE LET r == Tool_execute(b.name, p.value, c, e)
                 IN [r EXCEPT !.evs = p.evs \o <<Call("execute", p.value)>> \o @,
                              !.returned = TRUE]

\* BaseTool.handle(cline, block, callbacks), up to the first await on the
\* user of the execute it calls; handle awaits execute, so it has returned
\* exactly when execute has.
handle(b, c, e) ==
    IF b.partial
    THEN LET r == Tool_handlePartial(b.name, c, b)
         IN [r EXCEPT !.evs = <<Call("handlePartial", [params |-> b.params])>> \o @]
    ELSE LET p == ResolveParams(b, e)
         IN IF p.kind = "throw"
            THEN Ended(c, p.evs \o <<Cb("handle", "handleError", "parsing args"),
                                     Cb("handle", "pushToolResult", "<error>")>>)
            ELSE LET r == Tool_execute(b.name, p.value, c, e)
                 IN [r EXCEPT !.evs = p.evs \o <<Call("execute", p.value)>> \o @]


(***************************************************************************)
(* Inputs of the dispatch: native calls, legacy streams, what execute      *)
(* reads from outside the task, and the answers of the user.               *)
(***************************************************************************)
sEsc == <<"\\", "\\", "@">>
sTrueMixed == <<"T", "r", "u", "e">>
sTrue == <<"t", "r", "u", "e">>

\* The native calls the driver receives.
NativeCalls ==
    {ToolCall("attempt_completion", <<LB, K("result"), CL, S(sA), RB>>),
     ToolCall("attempt_completion", <<LB, K("result"), CL, S(<<>>), RB>>),
     ToolCall("attempt_completion",
              <<LB, K("result"), CL, S(sA), CM, K("command"), CL, S(sLs), RB>>),
     ToolCall("list_files",
              <<LB, K("path"), CL, S(sA), CM, K("recursive"), CL, TTrue, RB>>),
     ToolCall("new_task",
              <<LB, K("mode"), CL, S(sA), CM, K("message"), CL, S(sEsc), RB>>),
     ToolCall("read_file", <<LB, K("path"), CL, S(sA), RB>>),
     ToolCall("read_file", <<LB, K("files"), CL>> \o FilesList1 \o <<RB>>),
     ToolCall("read_file", <<LB, RB>>),
     ToolCall("insert_content", InsertText(S(s12))),
     ToolCall("execute_command", <<LB, K("command"), CL, S(sLs), RB>>),
     ToolCall("execute_command", <<LB, K("command"), CL, S(sLs)>>),
     ToolCall("attempt_completion", <<TNull>>),
     ToolCall("attempt_completion", <<LB, K("command"), CL, S(sLs), RB>>),
     ToolCall("execute_command", <<LB, RB>>),
     ToolCall("insert_content",
              <<LB, K("path"), CL, S(sA), CM, K("line"), CL, N(120), RB>>),
     ToolCall("bogus_tool", <<LB, K("path"), CL, S(sA), RB>>)}

\* A legacy invocation: the tool and its parameters in the order the
\* assistant writes them.
F(k, v) == [k |-> k, v |-> v]
LegacyStreams ==
    {[name |-> "attempt_completion", fields |-> <<F("result", sA)>>],
     [name |-> "attempt_completion", fields |-> <<F("result", sA), F("command", sLs)>>],
     [name |-> "attempt_completion", fields |-> <<>>],
     [name |-> "new_task", fields |-> <<F("mode", sA), F("message", sEsc)>>],
     [name |-> "new_task", fields |-> <<F("mode", sA), F("message", sB), F("todos", sA)>>],
     [name |-> "new_task", fields |-> <<F("message", sB)>>],
     [name |-> "list_files", fields |-> <<F("path", sA), F("recursive", sTrueMixed)>>],
     [name |-> "list_files", fields |-> <<F("recursive", sTrue)>>],
     [name |-> "read_file", fields |-> <<F("path", sA)>>],
     [name |-> "execute_command", fields |-> <<F("command", sLs)>>]}

\* The closing tag of a parameter, as the assistant writes it.
ClosingTag(k) == <<"<", "/">> \o KeyChars(k) \o <<">">>

\* How far the stream has been read: f parameters opened, n characters of
\* the value of the last one, c characters of its closing tag.
Cut(f, n, c) == [f |-> f, n |-> n, c |-> c]
Min(a, b) == IF a <= b THEN a ELSE b
CutsOfField(fields, f) ==
    {Cut(f, n, 0) : n \in 0..Len(fields[f].v)} \cup
    {Cut(f, Len(fields[f].v), c) :
        c \in 1..Min(MaxTagChars, Len(ClosingTag(fields[f].k)) - 1)}
Cuts(fields) ==
    {Cut(0, 0, 0)} \cup UNION {CutsOfField(fields, f) : f \in DOMAIN fields}
\* The whole invocation has been read.
EndCut(fields) == Cut(Len(fields) + 1, 0, 0)
CutLess(a, b) ==
    \/ a.f < b.f
    \/ a.f = b.f /\ a.n < b.n
    \/ a.f = b.f /\ a.n = b.n /\ a.c < b.c

\* The params of the snapshot taken at a cut, and of the complete one.
ParamsAt(fields, cut) ==
    [k \in {fields[i].k : i \in 1..cut.f} |->
        LET i == CHOOSE j \in 1..cut.f : fields[j].k = k
        IN IF i < cut.f THEN fields[i].v
           ELSE SubSeq(fields[i].v, 1, cut.n) \o SubSeq(ClosingTag(k), 1, cut.c)]
FullParams(fields) ==
    [k \in {fields[i].k : i \in DOMAIN fields} |->
        fields[CHOOSE j \in DOMAIN fields : fields[j].k = k].v]

\* A ToolUse block of the legacy protocol.
Block(name, params, partial) ==
    [type |-> "tool_use", name |-> name, params |-> params,
     partial |-> partial, nativeArgs |-> Undef]

DefaultEnv ==
    [parseLegacyThrows |-> FALSE,
     preventCompletionWithOpenTodos |-> FALSE,
     todoList |-> <<>>,
     parentTask |-> FALSE,
     providerAlive |-> TRUE,
     newTaskRequireTodos |-> FALSE,
     todosParseFails |-> FALSE,
     modeKnown |-> TRUE,
     enableCheckpoints |-> FALSE,
     subtaskCreated |-> TRUE,
     didHitLimit |-> FALSE]

TodoLists == {<<>>, <<"completed">>, <<"completed", "in_progress">>}

\* What execute can read before its await; a reading that no run of the
\* tool makes keeps its default.
Envs(name) ==
    IF name = "attempt_completion"
    THEN {[DefaultEnv EXCEPT !.preventCompletionWithOpenTodos = p,
                             !.todoList = t, !.parentTask = s] :
            p \in BOOLEAN, t \in TodoLists, s \in BOOLEAN}
    ELSE IF name = "new_task"
    THEN {e \in {[DefaultEnv EXCEPT !.providerAlive = a, !.newTaskRequireTodos = r,
                                    !.todosParseFails = f, !.modeKnown = m] :
                    a \in BOOLEAN, r \in BOOLEAN, f \in BOOLEAN, m \in BOOLEAN} :
            /\ ~e.providerAlive => ~e.newTaskRequireTodos /\ ~e.todosParseFails /\ e.modeKnown
            /\ e.todosParseFails => e.modeKnown}
    ELSE IF name = "list_files"
    THEN {[DefaultEnv EXCEPT !.didHitLimit = d] : d \in BOOLEAN}
    ELSE {[DefaultEnv EXCEPT !.parseLegacyThrows = t] : t \in BOOLEAN}

\* What execute can read after its await.
PostEnvs(name, at, e) ==
    IF name = "attempt_completion" /\ at = "askFinishSubTaskApproval"
    THEN {[e EXCEPT !.providerAlive = a] : a \in BOOLEAN}
    ELSE IF name = "new_task"
    THEN {[e EXCEPT !.enableCheckpoints = k, !.subtaskCreated = n] :
            k \in BOOLEAN, n \in BOOLEAN}
    ELSE {e}

Answers == {[approved |-> TRUE], [approved |-> FALSE]}

(***************************************************************************)
(* The driver: it parses a native call and hands the block to handle, or   *)
(* hands the snapshots of a legacy stream to handle one after the other.   *)
(***************************************************************************)
\* One call of handle, up to the await of its execute or to its return.
Deliver(b, e) ==
    LET r == handle(b, cline, e)
    IN /\ block' = b
       /\ env' = e
       /\ cline' = r.cline
       /\ log' = <<[block |-> b, evs |-> r.evs, echo |-> r.echo,
                     pre |-> cline, post |-> r.cline]>>
       /\ wait' = IF r.wait = "none" THEN None ELSE [at |-> r.wait, k |-> r.k]
       /\ pc' = IF b.partial THEN "streaming"
                ELSE IF r.returned THEN "done" ELSE "awaiting"

ParseNative ==
    /\ pc = "idle"
    /\ \E tc \in NativeCalls : CallParser(tc)

\* The parser returned null: the driver drops the call.
SkipCall ==
    /\ pc = "parsed"
    /\ parsed.value = Null
    /\ pc' = "idle"
    /\ toolCall' = None
    /\ parsed' = None
    /\ parsedOld' = None
    /\ UNCHANGED <<nCalls, rejected, invocationVars, cline>>

HandleNative ==
    /\ pc = "parsed"
    /\ parsed.value # Null
    /\ \E e \in Envs(parsed.value.name) : Deliver(parsed.value, e)
    /\ UNCHANGED <<nCalls, rejected, parserVars, stream>>

\* The number of task-completed events among the events.
Completions(evs) ==
    Cardinality({j \in DOMAIN evs : evs[j].by # "handle" /\ evs[j].ev = "emit"
                                    /\ evs[j].arg = "TaskCompleted"})

\* The assistant starts to stream an invocation; the stream counts the
\* task-completed events its snapshots have caused so far.
StartStream ==
    /\ pc = "idle"
    /\ nCalls < MaxCalls
    /\ nCalls' = nCalls + 1
    /\ \E s \in LegacyStreams :
          stream' = [name |-> s.name, fields |-> s.fields,
                     cut |-> Cut(0, 0, 0), partials |-> 0, completed |-> 0]
    /\ pc' = "streaming"
    /\ UNCHANGED <<rejected, parserVars, block, log, env, wait, cline>>

HandlePartialSnapshot ==
    /\ pc = "streaming"
    /\ stream.partials < MaxPartials
    /\ \E cut \in Cuts(stream.fields) :
          /\ stream.partials = 0 \/ CutLess(stream.cut, cut)
          /\ LET b == Block(stream.name, ParamsAt(stream.fields, cut), TRUE)
             IN /\ stream' = [stream EXCEPT
                                 !.cut = cut, !.partials = @ + 1,
                                 !.completed = @ + Completions(handle(b, cline, env).evs)]
                /\ Deliver(b, env)
    /\ UNCHANGED <<nCalls, rejected, parserVars>>

HandleCompleteSnapshot ==
    /\ pc = "streaming"
    /\ \E e \in Envs(stream.name) :
          LET b == Block(stream.name, FullParams(stream.fields), FALSE)
          IN /\ Deliver(b, e)
             /\ stream' = [stream EXCEPT
                              !.cut = EndCut(stream.fields),
                              !.completed = @ + Completions(handle(b, cline, e).evs)]
    /\ UNCHANGED <<nCalls, rejected, parserVars>>

\* The user answers the await; execute runs to its end and handle returns.
Resolve ==
    /\ pc = "awaiting"
    /\ \E a \in Answers, e \in PostEnvs(block.name, wait.at, env) :
          LET r == Tool_resume(block.name, wait.at, a, cline, e, wait.k)
              n == Len(log)
              answer == Cb("user", wait.at, IF a.approved THEN "true" ELSE "false")
          IN /\ cline' = r.cline
             /\ env' = e
             /\ log' = [log EXCEPT ![n].evs = @ \o <<answer>> \o r.evs,
                                   ![n].post = r.cline]
    /\ wait' = None
    /\ pc' = "done"
    /\ UNCHANGED <<nCalls, rejected, parserVars, block, stream>>

\* handle has returned: the driver is ready for the next invocation.
Discard ==
    /\ pc = "done"
    /\ pc' = "idle"
    /\ toolCall' = None
    /\ parsed' = None
    /\ parsedOld' = None
    /\ block' = None
    /\ stream' = None
    /\ log' = <<>>
    /\ env' = None
    /\ wait' = None
    /\ UNCHANGED <<nCalls, rejected, cline>>

Next ==
    \/ ParseNative
    \/ SkipCall
    \/ HandleNative
    \/ StartStream
    \/ HandlePartialSnapshot
    \/ HandleCompleteSnapshot
    \/ Resolve
    \/ Discard

Spec == Init /\ [][Next]_vars


(***************************************************************************)
(* Properties of the dispatch.                                             *)
(***************************************************************************)
\* The calls of the given method that handle itself made in an entry of the
\* log, by position.
ByHandle(en, m) == {j \in DOMAIN en.evs : en.evs[j].by = "handle" /\ en.evs[j].ev = m}
Times(en, m) == Cardinality(ByHandle(en, m))
Resolutions(en) == ByHandle(en, "useNativeArgs") \cup ByHandle(en, "parseLegacy")
ResolutionThrew(en) ==
    \E j \in ByHandle(en, "parseLegacy") : en.evs[j].val.kind = "throw"

\* Snapshots of one invocation reach handle as partial ones and then one
\* complete one: while the stream is being read every block handled was
\* partial, and the complete block is handled when it has been read whole.
PartialsThenComplete ==
    \A i \in DOMAIN log :
        /\ pc = "streaming" => log[i].block.partial
        /\ (stream # None /\ ~log[i].block.partial) => stream.cut = EndCut(stream.fields)

EchoOnly(en) ==
    /\ Times(en, "handlePartial") = 1
    /\ Resolutions(en) = {}
    /\ Times(en, "execute") = 0
    /\ Times(en, "handleError") = 0
    /\ Times(en, "pushToolResult") = 0

\* C4 as stated: every partial snapshot causes exactly one handlePartial
\* call and no parseLegacy, execute, handleError or pushToolResult call by
\* the dispatcher; the complete snapshot causes no handlePartial call,
\* exactly one parameter-resolution path and then exactly one execute call.
C4_CompleteAlwaysExecutes ==
    /\ PartialsThenComplete
    /\ \A i \in DOMAIN log :
          LET en == log[i]
          IN IF en.block.partial THEN EchoOnly(en)
             ELSE /\ Times(en, "handlePartial") = 0
                  /\ Cardinality(Resolutions(en)) = 1
                  /\ Times(en, "execute") = 1
                  /\ \A j \in Resolutions(en), x \in ByHandle(en, "execute") : j < x

\* C4, amended: as above, but the complete snapshot causes exactly one
\* execute call, after the resolution, when the parameter resolution
\* returned, and no execute call when it raised an error.
C4_CompleteExecutesUnlessResolutionThrew ==
    /\ PartialsThenComplete
    /\ \A i \in DOMAIN log :
          LET en == log[i]
          IN IF en.block.partial THEN EchoOnly(en)
             ELSE /\ Times(en, "handlePartial") = 0
                  /\ Cardinality(Resolutions(en)) = 1
                  /\ Times(en, "execute") = (IF ResolutionThrew(en) THEN 0 ELSE 1)
                  /\ \A j \in Resolutions(en), x \in ByHandle(en, "execute") : j < x

\* Two partial snapshots have been handled and then the complete one, and the
\* complete one was executed.
C4_Witness ==
    /\ stream # None
    /\ stream.partials = 2
    /\ log # <<>>
    /\ ~log[1].block.partial
    /\ Times(log[1], "execute") = 1

\* C5: for every complete invocation whose nativeArgs is present,
\* parseLegacy is never called, execute is called, and the parameters
\* execute receives are exactly the nativeArgs, whatever the legacy params.
C5_NativeArgsPrecedence ==
    \A i \in DOMAIN log :
        LET en == log[i]
        IN (~en.block.partial /\ en.block.nativeArgs # Undef) =>
              /\ Times(en, "parseLegacy") = 0
              /\ Times(en, "execute") = 1
              /\ \A x \in ByHandle(en, "execute") : en.evs[x].val = en.block.nativeArgs

\* A native block whose legacy params are not empty and would parse to
\* other parameters than its nativeArgs has been executed.
C5_Witness ==
    /\ pc \in {"awaiting", "done"}
    /\ block.nativeArgs # Undef
    /\ block.name \in ConcreteTools
    /\ block.params # NoParams
    /\ Tool_parseLegacy(block.name, block.params, env).value # block.nativeArgs
    /\ Times(log[Len(log)], "execute") = 1

Executed(en) ==
    /\ ~ResolutionThrew(en)
    /\ Cardinality(Resolutions(en)) = 1
    /\ Times(en, "execute") = 1
    /\ Times(en, "handleError") = 0
    /\ Times(en, "pushToolResult") = 0
Reported(en) ==
    /\ ResolutionThrew(en)
    /\ Times(en, "handleError") = 1
    /\ Times(en, "pushToolResult") = 1
    /\ \A j \in ByHandle(en, "handleError"), x \in ByHandle(en, "pushToolResult") :
          j < x /\ en.evs[x].arg = "<error>"
    /\ Times(en, "execute") = 0

\* C6: every complete invocation passed to handle ends in exactly one of:
\* (a) parameters resolved and execute called exactly once, with no
\* handleError and no error result from the dispatcher; (b) the resolution
\* raised an error, handleError is invoked, then an error result is pushed,
\* and execute is never called.
C6_ExactlyOneOutcome ==
    \A i \in DOMAIN log :
        ~log[i].block.partial => (Executed(log[i]) /\ ~Reported(log[i]))
                                 \/ (Reported(log[i]) /\ ~Executed(log[i]))

\* A complete invocation whose parameter resolution raised an error.
C6_Witness ==
    /\ pc = "done"
    /\ ~block.partial
    /\ Reported(log[Len(log)])

\* C8 as stated: for every concrete tool and every partial invocation,
\* handlePartial only produces UI echo (a partial say or ask): no
\* task-completed event, no completion telemetry, no sub-task started or
\* finished, no tool result pushed, and no change of the mistake counter or
\* of any other durable state of the task.
C8_PartialOnlyEchoes ==
    \A i \in DOMAIN log :
        LET en == log[i]
        IN (en.block.partial /\ en.block.name \in ConcreteTools) =>
              /\ \A j \in DOMAIN en.evs :
                    en.evs[j].by # "handle" =>
                        /\ en.evs[j].ev \in {"say", "ask"}
                        /\ en.evs[j].partial
              /\ [en.post EXCEPT !.lastMessage = en.pre.lastMessage] = en.pre
(***************************************************************************)
(* new_task on its own: complete invocations with any message.             *)
(***************************************************************************)
MsgChars == {"\\", "@", "b"}
RECURSIVE StringsUpTo(_)
StringsUpTo(n) ==
    IF n = 0 THEN {<<>>}
    ELSE LET shorter == StringsUpTo(n - 1)
         IN shorter \cup {Append(s, c) : s \in shorter, c \in MsgChars}
Messages == StringsUpTo(MaxMsgLen) \ {<<>>}

NewTaskParams(m) == [k \in {"mode", "message"} |-> IF k = "mode" THEN sA ELSE m]

HandleNewTaskMessage ==
    /\ pc = "idle"
    /\ nCalls < MaxCalls
    /\ nCalls' = nCalls + 1
    /\ \E m \in Messages, e \in Envs("new_task") :
          Deliver(Block("new_task", NewTaskParams(m), FALSE), e)
    /\ UNCHANGED <<rejected, parserVars, stream>>

NextNewTask == HandleNewTaskMessage \/ Resolve \/ Discard

SpecNewTask == Init /\ [][NextNewTask]_vars

\* The positions of the events of a tool (not of handle) of the given kind.
ByTool(en, ev) == {j \in DOMAIN en.evs : en.evs[j].by # "handle" /\ en.evs[j].ev = ev}

\* The backslashes the un-escaping is to remove: the one right before an
\* '@' that has at least two backslashes right before it.
Dropped(m) ==
    {i \in DOMAIN m : i >= 2 /\ i < Len(m) /\ m[i - 1] = "\\" /\ m[i] = "\\"
                      /\ m[i + 1] = "@"}
RECURSIVE Without(_, _, _)
Without(m, drop, i) ==
    IF i > Len(m) THEN <<>>
    ELSE (IF i \in drop THEN <<>> ELSE <<m[i]>>) \o Without(m, drop, i + 1)

ExecuteOf(en, name) ==
    /\ ~en.block.partial
    /\ en.block.name = name
    /\ Times(en, "execute") = 1
ToolEvents(en) == {en.evs[j].ev : j \in {j \in DOMAIN en.evs : en.evs[j].by # "handle"}}
Pushed(en, text) ==
    \E j \in ByTool(en, "pushToolResult") : en.evs[j].arg = text

\* C12: in attempt_completion execute, when the open-todos gate is enabled
\* and some todo is not completed, the error result is pushed and nothing
\* else of the completion runs: no completion_result is said, no
\* task-completed event or telemetry, no ask, no finishSubTask, whatever the
\* result parameter is.
C12_OpenTodosBlockCompletion ==
    \A i \in DOMAIN log :
        LET en == log[i]
        IN (/\ ExecuteOf(en, "attempt_completion")
            /\ env.preventCompletionWithOpenTodos
            /\ \E t \in DOMAIN env.todoList : env.todoList[t] # "completed")
           => /\ Pushed(en, "error: incomplete todos")
              /\ Cardinality(ByTool(en, "pushToolResult")) = 1
              /\ ToolEvents(en) = {"recordToolError", "pushToolResult"}
              /\ pc = "done"

\* The gate blocked a completion that carries a result.
C12_Witness ==
    /\ log # <<>>
    /\ ExecuteOf(log[1], "attempt_completion")
    /\ env.preventCompletionWithOpenTodos
    /\ env.todoList = <<"completed", "in_progress">>
    /\ "result" \in DOMAIN block.params
    /\ block.params["result"] = sA
    /\ Pushed(log[1], "error: incomplete todos")
\* C13: in new_task execute, when the todos payload is not empty and
\* parseMarkdownChecklist fails on it, the 'Invalid todos format' error is
\* the result of the call: askApproval is never called, no checkpoint is
\* saved and startSubtask is never called.
C13_BadTodosFailTheCall ==
    \A i \in DOMAIN log :
        LET en == log[i]
        IN (/\ ExecuteOf(en, "new_task")
            /\ \E j \in ByTool(en, "parseMarkdownChecklist") : en.evs[j].arg = "throws")
           => /\ Pushed(en, "error: Invalid todos format")
              /\ Cardinality(ByTool(en, "pushToolResult")) = 1
              /\ ToolEvents(en) \cap {"askApproval", "checkpointSave", "startSubtask"} = {}
              /\ pc = "done"

\* A new_task call with mode, message and a todos payload that does not parse.
C13_Witness ==
    /\ log # <<>>
    /\ ExecuteOf(log[1], "new_task")
    /\ env.todosParseFails
    /\ "todos" \in DOMAIN block.params
    /\ Pushed(log[1], "error: Invalid todos format")
\* C14: in new_task execute, askApproval is called only after getModeBySlug
\* returned a mode; when the mode is unknown the 'Invalid mode' error is
\* pushed and neither askApproval nor startSubtask is ever called.
C14_ModeCheckedBeforeApproval ==
    \A i \in DOMAIN log :
        LET en == log[i]
        IN ExecuteOf(en, "new_task") =>
              /\ \A j \in ByTool(en, "askApproval") \cup ByTool(en, "startSubtask") :
                    \E g \in ByTool(en, "getModeBySlug") :
                        g < j /\ en.evs[g].arg = "mode"
              /\ (\E g \in ByTool(en, "getModeBySlug") : en.evs[g].arg = "undefined")
                    => /\ Pushed(en, "error: Invalid mode")
                       /\ ToolEvents(en) \cap {"askApproval", "startSubtask"} = {}
                       /\ pc = "done"

\* A new_task call for a mode the registry does not know.
C14_Witness ==
    /\ log # <<>>
    /\ ExecuteOf(log[1], "new_task")
    /\ ~env.modeKnown
    /\ Pushed(log[1], "error: Invalid mode")
\* The error results a concrete tool's execute pushes in place of a result.
ErrorResults ==
    {"error: incomplete todos", "error: missing result",
     "error: missing mode", "error: missing message", "error: missing todos",
     "error: Invalid todos format", "error: Invalid mode",
     "error: Provider reference lost", "error: missing path"}

\* C15 as stated: every execute of a concrete tool that pushes an error
\* result in place of a result increments the consecutive mistake count of
\* the task in that same execute, and a call of handle that does not reach
\* execute leaves the count as it was.
C15_ErrorsCountAsMistakes ==
    \A i \in DOMAIN log :
        LET en == log[i]
        IN /\ (/\ en.block.name \in ConcreteTools
               /\ Times(en, "execute") = 1
               /\ \E r \in ErrorResults : Pushed(en, r))
              => en.post.consecutiveMistakeCount = en.pre.consecutiveMistakeCount + 1
           /\ Times(en, "execute") = 0
              => en.post.consecutiveMistakeCount = en.pre.consecutiveMistakeCount

(***************************************************************************)
(* Claims about nativeArgs against legacyParams.                           *)
(***************************************************************************)
\* The string form of a native value: the string itself, otherwise its
\* JSON serialization.
StringForm(v) == IF v.t = "str" THEN v.s ELSE JSONstringify(v)

\* The field names carried both by an object nativeArgs and by params.
SharedFields(inv) ==
    IF inv.nativeArgs # Undef /\ inv.nativeArgs.t = "obj"
    THEN KeysOf(inv.nativeArgs) \cap DOMAIN inv.params
    ELSE {}

\* C16 as stated: in every invocation returned with nativeArgs, each field
\* carried by both nativeArgs and legacyParams has as its legacyParams
\* string the string form of the nativeArgs value, the insert_content line
\* given as a numeric string or as a number included.
C16_NativeMatchesLegacy ==
    Accepted =>
        \A k \in SharedFields(parsed.value) :
            parsed.value.params[k] = StringForm(Prop(parsed.value.nativeArgs, k))

\* An insert_content line that the parser converts from something other
\* than a number.
ConvertedLine(k) ==
    /\ toolCall.name = "insert_content" /\ k = "line"
    /\ Prop(Decoded.v, "line").t # "num"

\* C16 amended: each field carried by both has as its legacyParams string
\* the string form of the nativeArgs value, numbers in the insert_content
\* line field included, but not an insert_content line given as anything
\* other than a number; when that line is given as a string, the native
\* line is parseInt of the legacyParams string.
C16_NativeMatchesLegacyUnlessConverted ==
    Accepted =>
        \A k \in SharedFields(parsed.value) :
            LET native == Prop(parsed.value.nativeArgs, k)
                legacy == parsed.value.params[k]
            IN /\ ~ConvertedLine(k) => legacy = StringForm(native)
               /\ (ConvertedLine(k) /\ Prop(Decoded.v, "line").t = "str")
                     => native = parseInt(legacy)

\* Reached: insert_content with line " 7" (native 7, legacy " 7"), with a
\* path carried by both as the same string.
C16_Witness ==
    /\ Accepted /\ toolCall.name = "insert_content"
    /\ SharedFields(parsed.value) = {"path", "line", "content"}
    /\ Prop(Decoded.v, "line") = JStr(sSp7)
    /\ Prop(parsed.value.nativeArgs, "line") = JInt(7)
    /\ parsed.value.params["line"] = sSp7
    /\ parsed.value.params["path"] = Prop(parsed.value.nativeArgs, "path").s

\* C17: for every read_file call the returned legacyParams has no "files"
\* entry, whatever the files argument is; a files list is carried by
\* nativeArgs, and every other recognized key of the call is synthesized
\* into legacyParams.
C17_FilesOnlyInNativeArgs ==
    (Accepted /\ toolCall.name = "read_file") =>
        LET args == Decoded.v
            files == Prop(args, "files")
        IN /\ "files" \notin DOMAIN parsed.value.params
           /\ files.t = "arr" => parsed.value.nativeArgs = files
           /\ args.t = "obj" =>
                \A k \in (KeysOf(args) \cap toolParamNames) \ {"files"} :
                    /\ k \in DOMAIN parsed.value.params
                    /\ parsed.value.params[k] = StringForm(Prop(args, k))

\* Reached: read_file given a files list and a path; the list is the
\* nativeArgs, the path is in legacyParams and files is not.
C17_Witness ==
    /\ Accepted /\ toolCall.name = "read_file"
    /\ Prop(Decoded.v, "files").t = "arr" /\ Prop(Decoded.v, "files").a # <<>>
    /\ Prop(Decoded.v, "path") = JStr(sB)
    /\ parsed.value.nativeArgs = Prop(Decoded.v, "files")
    /\ DOMAIN parsed.value.params = {"path"}

\* The required fields of the tools whose nativeArgs are built from scalar
\* fields.
RequiredFields ==
    [attempt_completion |-> {"result"},
     execute_command |-> {"command"},
     insert_content |-> {"path", "line", "content"},
     apply_diff |-> {"path", "diff"},
     ask_followup_question |-> {"question", "follow_up"},
     codebase_search |-> {"query"},
     fetch_instructions |-> {"task"}]

MissingRequired ==
    {f \in RequiredFields[toolCall.name] : Prop(Decoded.v, f) = Undef}

\* The parsed invocation is the block of the handle call in the log.
Handled == log # <<>> /\ parsed # None /\ log[1].block = parsed.value

\* C18 as stated: for the tools with scalar required fields and arguments
\* that decode, nativeArgs is populated only when no required field is
\* missing; when one is missing the invocation is still returned, with
\* nativeArgs undefined, and handle resolves its parameters through
\* parseLegacy.
C18_NativeArgsNeedRequiredFields ==
    (pc # "idle" /\ toolCall # None
     /\ toolCall.name \in DOMAIN RequiredFields /\ Decoded.ok) =>
        /\ (parsed.value # Null /\ parsed.value.nativeArgs # Undef)
              => MissingRequired = {}
        /\ MissingRequired # {} =>
              /\ IsInvocationOf(parsed, toolCall.name)
              /\ parsed.value.nativeArgs = Undef
              /\ Handled => /\ Times(log[1], "parseLegacy") = 1
                            /\ Times(log[1], "useNativeArgs") = 0

\* The tool names that have a case in the switch building nativeArgs.
ConversionTable == DOMAIN RequiredFields \cup {"read_file", "browser_action"}

\* C19: for a valid tool name outside the conversion table and arguments
\* that decode to an object, parseToolCall returns an invocation whose
\* nativeArgs is undefined, and handle on it calls parseLegacy on the
\* legacyParams, never uses nativeArgs, and calls execute only after that.
C19_OutsideTableRunsLegacy ==
    (pc # "idle" /\ toolCall # None
     /\ toolCall.name \in toolNames \ ConversionTable
     /\ Decoded.ok /\ Decoded.v.t = "obj") =>
        /\ IsInvocationOf(parsed, toolCall.name)
        /\ parsed.value.nativeArgs = Undef
        /\ Handled =>
              LET en == log[1] IN
              /\ Times(en, "useNativeArgs") = 0
              /\ Times(en, "parseLegacy") = 1
              /\ \A j \in ByHandle(en, "parseLegacy") :
                    /\ en.evs[j].val.params = parsed.value.params
                    /\ \A x \in ByHandle(en, "execute") : j < x
              /\ toolCall.name \in ConcreteTools => Times(en, "execute") = 1

\* Reached: a native list_files call was handled: parseLegacy, then
\* execute.
C19_Witness ==
    /\ pc \in {"done", "awaiting"} /\ toolCall # None /\ Handled
    /\ toolCall.name = "list_files"
    /\ Decoded.ok /\ Decoded.v.t = "obj"
    /\ parsed.value.nativeArgs = Undef
    /\ Times(log[1], "parseLegacy") = 1
    /\ Times(log[1], "execute") = 1

\* The arguments {"path": p} of the single-path shape.
SinglePathArgs(p) == JObj(<<Ent("path", p)>>)

\* The list [{"path": p, "line_ranges": []}] of the list shape.
OneFileList(p) ==
    JArr(<<JObj(<<Ent("path", p), Ent("line_ranges", JArr(<<>>))>>)>>)

\* C20 as stated: every nativeArgs of read_file, from the single-path
\* shape or from the list shape, is a list whose entries all carry the
\* field names path and lineRanges, and the list
\* [{"path": p, "line_ranges": []}] yields the nativeArgs that {"path": p}
\* yields.
C20_ShapesNormalizeAlike ==
    (Accepted /\ toolCall.name = "read_file"
     /\ parsed.value.nativeArgs # Undef) =>
        LET native == parsed.value.nativeArgs
            files == Prop(Decoded.v, "files")
        IN /\ native.t = "arr"
           /\ \A i \in DOMAIN native.a :
                 /\ native.a[i].t = "obj"
                 /\ KeysOf(native.a[i]) = {"path", "lineRanges"}
           /\ \A p \in {JStr(sA), JStr(sB)} :
                 files = OneFileList(p)
                    => native = BuildNativeArgs("read_file", SinglePathArgs(p))

(***************************************************************************)
(* The un-escaping as a function on messages.                              *)
(***************************************************************************)
\* Some '@' of the message has three or more backslashes right before it.
DeeplyEscaped(m) ==
    \E i \in DOMAIN m :
        /\ i >= 4 /\ m[i] = "@"
        /\ m[i - 1] = "\\" /\ m[i - 2] = "\\" /\ m[i - 3] = "\\"

\* C21 as stated: the un-escaping is idempotent: for every message,
\* un-escaping the message handed to startSubtask once more changes
\* nothing, U(U(m)) = U(m).
C21_UnescapeIdempotent ==
    \A i \in DOMAIN log :
        \A j \in ByTool(log[i], "startSubtask") :
            Unescape(log[i].evs[j].val.s) = log[i].evs[j].val.s

\* C21 amended: U(U(m)) = U(m) for every message m in which no '@' has
\* three or more backslashes right before it.
C21_UnescapeIdempotentUpToTwo ==
    \A i \in DOMAIN log :
        LET m == log[i].block.params["message"] IN
        \A j \in ByTool(log[i], "startSubtask") :
            ~DeeplyEscaped(m)
                => Unescape(log[i].evs[j].val.s) = log[i].evs[j].val.s

\* Reached: the message b\\@ was handed over as b\@, which the
\* un-escaping leaves as it is.
C21_Witness ==
    /\ log # <<>>
    /\ block.name = "new_task"
    /\ block.params["message"] = <<"b", "\\", "\\", "@">>
    /\ \E j \in ByTool(log[1], "startSubtask") :
          /\ log[1].evs[j].val = JStr(<<"b", "\\", "@">>)
          /\ Unescape(<<"b", "\\", "@">>) = <<"b", "\\", "@">>

(***************************************************************************)
(* attempt_completion and its result.                                      *)
(***************************************************************************)
\* The block carries no result parameter, or the empty one, and no
\* nativeArgs.
ResultMissing(b) ==
    /\ b.nativeArgs = Undef
    /\ "result" \in DOMAIN b.params => b.params["result"] = <<>>

\* A native attempt_completion call whose arguments are an object with no
\* result, or with the empty string as result.
NativeResultMissing ==
    /\ toolCall # None /\ toolCall.name = "attempt_completion"
    /\ Decoded.ok /\ Decoded.v.t = "obj"
    /\ Prop(Decoded.v, "result") \in {Undef, JStr(<<>>)}

\* The events of execute that complete the task.
Completes(en) ==
    \/ \E j \in ByTool(en, "say") : en.evs[j].arg = "completion_result"
    \/ \E j \in ByTool(en, "emit") : en.evs[j].arg = "TaskCompleted"
    \/ ByTool(en, "finishSubTask") # {}

\* The open-todos gate of the environment rejects a completion.
GateCloses ==
    /\ env.preventCompletionWithOpenTodos
    /\ \E t \in DOMAIN env.todoList : env.todoList[t] # "completed"

\* C22 as stated: when the result is absent or empty, a native call leaves
\* nativeArgs unset and goes through parseLegacy, and on both protocols
\* execute pushes the missing-parameter error for result and neither says
\* completion_result nor emits the task-completed event nor calls
\* finishSubTask.
C22_EmptyResultRejected ==
    /\ (NativeResultMissing /\ pc # "idle") =>
          /\ IsInvocationOf(parsed, "attempt_completion")
          /\ ResultMissing(parsed.value)
          /\ Handled => Times(log[1], "parseLegacy") = 1
    /\ \A i \in DOMAIN log : LET en == log[i] IN
          (ExecuteOf(en, "attempt_completion") /\ ResultMissing(en.block))
             => /\ Pushed(en, "error: missing result")
                /\ ~Completes(en)

\* C22 amended: the same, except that execute pushes the error of the
\* open-todos gate in place of the missing-parameter error when that gate
\* rejects the call.
C22_EmptyResultRejectedAfterGate ==
    /\ (NativeResultMissing /\ pc # "idle") =>
          /\ IsInvocationOf(parsed, "attempt_completion")
          /\ ResultMissing(parsed.value)
          /\ Handled => Times(log[1], "parseLegacy") = 1
    /\ \A i \in DOMAIN log : LET en == log[i] IN
          (ExecuteOf(en, "attempt_completion") /\ ResultMissing(en.block))
             => /\ IF GateCloses THEN Pushed(en, "error: incomplete todos")
                   ELSE Pushed(en, "error: missing result")
                /\ Cardinality(ByTool(en, "pushToolResult")) = 1
                /\ ~Completes(en)

\* Reached: a native call with the empty result was handled through
\* parseLegacy and execute pushed the missing-parameter error.
C22_Witness ==
    /\ NativeResultMissing /\ Handled /\ pc = "done"
    /\ Prop(Decoded.v, "result") = JStr(<<>>)
    /\ ~GateCloses
    /\ ExecuteOf(log[1], "attempt_completion")
    /\ Pushed(log[1], "error: missing result")

(***************************************************************************)
(* list_files on both protocols: the recursion flag.                       *)
(***************************************************************************)
\* The strings of the recursive parameter.
RecursiveTexts ==
    {sTrue, sTrueMixed, <<"T", "R", "U", "E">>, <<"t", "r", "U", "e">>,
     <<"t", "r", "u", "e", " ">>, <<" ", "t", "r", "u", "e">>,
     <<"t", "r", "u">>, <<"f", "a", "l", "s", "e">>, <<"1">>, <<>>}

\* The legacy params with the given path and recursive, Undef for a
\* parameter that is absent.
ListFilesParams(p, r) ==
    [k \in {x \in {"path", "recursive"} : IF x = "path" THEN p # Undef ELSE r # Undef}
        |-> IF k = "path" THEN p.s ELSE r.s]

\* The arguments of native list_files calls.
ListFilesTexts ==
    {<<LB, K("path"), CL, S(sA), CM, K("recursive"), CL, TTrue, RB>>,
     <<LB, K("path"), CL, S(sA), CM, K("recursive"), CL, TFalse, RB>>,
     <<LB, K("path"), CL, S(sA), CM, K("recursive"), CL, S(sTrueMixed), RB>>,
     <<LB, K("path"), CL, S(sA), CM, K("recursive"), CL, N(10), RB>>,
     <<LB, K("path"), CL, S(sA), RB>>,
     <<LB, K("recursive"), CL, TTrue, RB>>}

ParseListFilesCall ==
    /\ pc = "idle"
    /\ \E text \in ListFilesTexts : CallParser(ToolCall("list_files", text))

HandleListFilesLegacy ==
    /\ pc = "idle"
    /\ nCalls < MaxCalls
    /\ nCalls' = nCalls + 1
    /\ \E p \in {Undef, JStr(<<>>), JStr(sA)},
          r \in {Undef} \cup {JStr(t) : t \in RecursiveTexts},
          e \in Envs("list_files") :
          Deliver(Block("list_files", ListFilesParams(p, r), FALSE), e)
    /\ UNCHANGED <<rejected, parserVars, stream>>

NextListFiles ==
    \/ ParseListFilesCall
    \/ HandleNative
    \/ HandleListFilesLegacy
    \/ Resolve
    \/ Discard

SpecListFiles == Init /\ [][NextListFiles]_vars

\* The string is "true" up to the case of its letters.
IsTrueIgnoringCase(s) ==
    /\ Len(s) = 4
    /\ s[1] \in {"t", "T"} /\ s[2] \in {"r", "R"}
    /\ s[3] \in {"u", "U"} /\ s[4] \in {"e", "E"}

\* The params handed to execute by the call of handle in the entry.
ExecuteParams(en) ==
    en.evs[CHOOSE j \in ByHandle(en, "execute") : TRUE].val

\* C23: the recursive flag that list_files execute receives from
\* parseLegacy is true exactly when the legacy string is "true" up to
\* letter case, false for every other string and for an absent one; a
\* native call carrying the boolean true is synthesized into the string
\* "true", so it and a legacy call carrying "true" hand execute the same
\* params: they are determined by the legacy strings alone.
C23_RecursiveIffTrueIgnoringCase ==
    /\ (pc # "idle" /\ toolCall # None /\ toolCall.name = "list_files"
        /\ Prop(Decoded.v, "recursive") = JBool(TRUE))
          => /\ parsed.value.nativeArgs = Undef
             /\ parsed.value.params["recursive"] = <<"t", "r", "u", "e">>
    /\ \A i \in DOMAIN log : LET en == log[i]
                               given == en.block.params IN
          ExecuteOf(en, "list_files") =>
             /\ Prop(ExecuteParams(en), "recursive")
                  = JBool("recursive" \in DOMAIN given
                          /\ IsTrueIgnoringCase(given["recursive"]))
             /\ Prop(ExecuteParams(en), "path")
                  = JStr(IF "path" \in DOMAIN given THEN given["path"] ELSE <<>>)

\* Reached: a native call with the boolean true was executed with
\* recursive = true.
C23_Witness ==
    /\ log # <<>> /\ toolCall # None /\ Handled
    /\ Prop(Decoded.v, "recursive") = JBool(TRUE)
    /\ ExecuteOf(log[1], "list_files")
    /\ ExecuteParams(log[1])
         = JObj(<<Ent("path", JStr(sA)), Ent("recursive", JBool(TRUE))>>)

(***************************************************************************)
(* One execute at a time.                                                  *)
(***************************************************************************)
\* The step starts a call of handle (the step of Resolve finishes one).
StartsHandle ==
    /\ log' # <<>> /\ log' # log
    /\ ~(pc = "awaiting" /\ pc' = "done")

\* C24: handle for a complete invocation has not returned while the
\* execute it started is suspended, waiting for approval or for another
\* answer of the user: whenever no call of handle is running, no execute
\* is in flight. The driver starts handle only when the previous call has
\* returned, so at every start of handle no execute is in flight: two
\* executes never overlap and they run in the order of the invocations.
C24_OneExecuteAtATime ==
    /\ [](pc # "awaiting" => wait = None)
    /\ [](pc = "awaiting" =>
             /\ wait # None
             /\ log # <<>> /\ ~block.partial /\ Times(log[1], "execute") = 1)
    /\ [][StartsHandle => (pc # "awaiting" /\ wait = None)]_vars

\* Reached: handle of new_task is still running while execute waits for
\* the approval.
C24_Witness ==
    /\ pc = "awaiting"
    /\ block.name = "new_task"
    /\ wait # None /\ wait.at = "askApproval"
    /\ ExecuteOf(log[1], "new_task")

(***************************************************************************)
(* Effects behind an approval.                                             *)
(***************************************************************************)
\* The positions where the user resolved the named approval with the given
\* answer.
Answered(en, at, answer) ==
    {j \in DOMAIN en.evs : en.evs[j] = Cb("user", at, answer)}

\* The positions of the effects that the named approval of the tool gates.
GatedEffects(en) ==
    CASE en.block.name = "new_task" ->
            ByTool(en, "startSubtask") \cup ByTool(en, "checkpointSave")
      [] en.block.name = "attempt_completion" -> ByTool(en, "finishSubTask")
      [] en.block.name = "list_files" ->
            {j \in ByTool(en, "pushToolResult") :
                en.evs[j].arg \in {"listing", "listing (truncated)"}}
      [] OTHER -> {}
ApprovalOf(name) ==
    IF name = "attempt_completion" THEN "askFinishSubTaskApproval"
    ELSE "askApproval"

\* C25: in one execute, startSubtask, the checkpoint and the change of
\* pausedModeSlug of new_task, finishSubTask of attempt_completion and the
\* listing of list_files happen only after the approval of that tool
\* resolved true; when the approval resolves false, execute returns at
\* once, having pushed no tool result and done none of these.
C25_GatedEffectsNeedApproval ==
    \A i \in DOMAIN log :
        LET en == log[i]
            at == ApprovalOf(en.block.name)
        IN en.block.name \in ConcreteTools =>
           /\ \A j \in GatedEffects(en) : \E a \in Answered(en, at, "true") : a < j
           /\ (en.post.pausedModeSlug # en.pre.pausedModeSlug
               \/ en.post.childTasks # en.pre.childTasks)
                 => Answered(en, at, "true") # {}
           /\ \A a \in Answered(en, at, "false") :
                 /\ a = Len(en.evs)
                 /\ pc = "done"
                 /\ ByTool(en, "pushToolResult") = {}
                 /\ GatedEffects(en) = {}
                 /\ en.post.pausedModeSlug = en.pre.pausedModeSlug
                 /\ en.post.childTasks = en.pre.childTasks

\* Reached: the approval of new_task resolved false and execute returned
\* with nothing pushed and no sub-task.
C25_Witness ==
    /\ log # <<>> /\ pc = "done"
    /\ ExecuteOf(log[1], "new_task")
    /\ Answered(log[1], "askApproval", "false") # {}
    /\ ByTool(log[1], "pushToolResult") = {}
    /\ ByTool(log[1], "startSubtask") = {}

(***************************************************************************)
(* The task-completed event over one attempt_completion invocation.        *)
(***************************************************************************)
\* C26 as stated: over the snapshots of one attempt_completion invocation
\* the task-completed event is emitted at most once, and only by the
\* execute of the complete snapshot, after the open-todos gate let the
\* call pass and the result was found not empty.
C26_CompletedOnceByExecute ==
    /\ (stream # None /\ stream.name = "attempt_completion")
          => stream.completed <= 1
    /\ \A i \in DOMAIN log : LET en == log[i] IN
          (en.block.name = "attempt_completion" /\ Completions(en.evs) > 0) =>
             /\ ~en.block.partial
             /\ Times(en, "execute") = 1
             /\ \A j \in ByTool(en, "emit") :
                   en.evs[j].by = "attempt_completion.execute"
             /\ ~GateCloses
             /\ Truthy(Prop(ExecuteParams(en), "result"))

====
